---- MODULE Spec2Model ----
(***************************************************************************)
(* Geometry kernel (bounding.rs) and layout engine (layout.rs) of the      *)
(* conjure visualizer.                                                     *)
(*                                                                         *)
(* Numbers.  The code computes in f64.  The model computes exactly in the  *)
(* real numbers of the form (a + b*sqrt(k)) / d, written <<a, b, k, d>>    *)
(* with integers a, b, a square-free k >= 1 and d >= 0; d = 0 encodes the  *)
(* IEEE specials: <<1,0,1,0>> = +inf, <<-1,0,1,0>> = -inf, <<0,0,1,0>> =   *)
(* NaN.  An operation whose exact result has no such form has no value in  *)
(* the model (TLC stops with an error there), so nothing is ever rounded.  *)
(* Negative zero is not distinguished from zero.                           *)
(*                                                                         *)
(* Angles.  An angle is an integer number of units, TurnUnits to the full  *)
(* turn (f64::consts::TAU).  cos and sin are exact at the multiples of 30  *)
(* and of 45 degrees and have no value elsewhere.                          *)
(***************************************************************************)
EXTENDS Integers, Sequences, FiniteSets, TLC

\* ---------------------------------------------------------------- numbers

Unsupported == CHOOSE x \in {} : TRUE

RECURSIVE Gcd(_, _)
Gcd(m, n) == IF n = 0 THEN m ELSE Gcd(n, m % n)

IAbs(n) == IF n < 0 THEN -n ELSE n

ISgn(n) == IF n < 0 THEN -1 ELSE IF n > 0 THEN 1 ELSE 0

\* the largest x with x*x <= n (n >= 2), by Newton's iteration downward
\* from x, y being the next iterate
RECURSIVE Newton(_, _, _)
Newton(n, x, y) == IF y >= x THEN x ELSE Newton(n, y, (y + n \div y) \div 2)

ISqrt(n) == IF n < 2 THEN n ELSE Newton(n, n, (n + 1) \div 2)

IMax(m, n) == IF m < n THEN n ELSE m

\* the largest m in lo .. hi with m*m dividing n, or 1, by halving the range
RECURSIVE SquarePart(_, _, _)
SquarePart(n, lo, hi) ==
    IF lo = hi THEN (IF n % (lo * lo) = 0 THEN lo ELSE 1)
    ELSE IMax(SquarePart(n, lo, (lo + hi) \div 2),
              SquarePart(n, (lo + hi) \div 2 + 1, hi))

\* (a + b*sqrt(k)) / d in normal form: d > 0, the square factor of k moved
\* out of the root, the fraction in lowest terms
Lowest(a, b, k, d, g) ==
    <<a \div g, b \div g, IF b = 0 THEN 1 ELSE k, d \div g>>

Reduced(a, b, k, d) == Lowest(a, b, k, d, Gcd(Gcd(IAbs(a), IAbs(b)), d))

Rooted(a, b, k, d, m) ==
    Reduced(IF k = m * m THEN a + b * m ELSE a,
            IF k = m * m THEN 0 ELSE b * m, k \div (m * m), d)

Norm(a, b, k, d) ==
    IF d = 0 THEN <<ISgn(a), 0, 1, 0>>
    ELSE Rooted(ISgn(d) * a, ISgn(d) * b, k, IAbs(d),
                IF b = 0 THEN 1 ELSE SquarePart(k, 1, IMax(1, ISqrt(k))))

Num(n) == <<n, 0, 1, 1>>

Frac(n, d) == Norm(n, 0, 1, d)

Zero == Num(0)

One == Num(1)

INFINITY == <<1, 0, 1, 0>>

NEG_INFINITY == <<-1, 0, 1, 0>>

NAN == <<0, 0, 1, 0>>

IsNaN(x) == x = NAN

IsFinite(x) == x[4] # 0

\* the sign of a number that is not NaN
Sign(x) ==
    IF x[4] = 0 THEN x[1]
    ELSE IF x[2] = 0 THEN ISgn(x[1])
    ELSE IF x[1] = 0 THEN ISgn(x[2])
    ELSE IF ISgn(x[1]) = ISgn(x[2]) THEN ISgn(x[1])
    ELSE IF x[1] * x[1] > x[3] * x[2] * x[2] THEN ISgn(x[1])
    ELSE ISgn(x[2])

Neg(x) == <<-x[1], -x[2], x[3], x[4]>>

\* two finite numbers whose sum has the model's form, and its radicand
Compatible(x, y) == x[2] = 0 \/ y[2] = 0 \/ x[3] = y[3]

Radicand(x, y) == IF x[2] # 0 THEN x[3] ELSE y[3]

Add(x, y) ==
    IF IsNaN(x) \/ IsNaN(y) THEN NAN
    ELSE IF ~IsFinite(x) THEN (IF ~IsFinite(y) /\ y # x THEN NAN ELSE x)
    ELSE IF ~IsFinite(y) THEN y
    ELSE IF Compatible(x, y)
         THEN Norm(x[1] * y[4] + y[1] * x[4], x[2] * y[4] + y[2] * x[4],
                   Radicand(x, y), x[4] * y[4])
         ELSE Unsupported

Sub(x, y) == Add(x, Neg(y))

Mul(x, y) ==
    IF IsNaN(x) \/ IsNaN(y) THEN NAN
    ELSE IF ~IsFinite(x) \/ ~IsFinite(y)
         THEN <<Sign(x) * Sign(y), 0, 1, 0>>
    ELSE IF Compatible(x, y)
         THEN Norm(x[1] * y[1] + Radicand(x, y) * x[2] * y[2],
                   x[1] * y[2] + y[1] * x[2], Radicand(x, y), x[4] * y[4])
    ELSE IF x[1] = 0 /\ y[1] = 0
         THEN Norm(0, x[2] * y[2], x[3] * y[3], x[4] * y[4])
         ELSE Unsupported

Div(x, y) ==
    IF IsNaN(x) \/ IsNaN(y) THEN NAN
    ELSE IF ~IsFinite(y)
         THEN (IF ~IsFinite(x) THEN NAN ELSE Zero)
    ELSE IF Sign(y) = 0
         THEN <<Sign(x), 0, 1, 0>>
    ELSE IF ~IsFinite(x)
         THEN <<Sign(x) * Sign(y), 0, 1, 0>>
    ELSE Mul(x, Norm(y[1] * y[4], -(y[2] * y[4]), y[3],
                     y[1] * y[1] - y[3] * y[2] * y[2]))

\* x <= y as f64 compares: false when either is NaN
Leq(x, y) ==
    IF IsNaN(x) \/ IsNaN(y) THEN FALSE
    ELSE IF ~IsFinite(x) \/ ~IsFinite(y)
         THEN (x = y \/ x = NEG_INFINITY \/ y = INFINITY)
    ELSE IF Compatible(x, y) THEN Sign(Sub(y, x)) >= 0
    ELSE IF x[1] = 0 /\ y[1] = 0
         THEN (IF ISgn(x[2]) # ISgn(y[2]) THEN ISgn(x[2]) < ISgn(y[2])
               ELSE ISgn(x[2]) * (y[2] * y[2] * y[3] * x[4] * x[4]
                                  - x[2] * x[2] * x[3] * y[4] * y[4]) >= 0)
         ELSE Unsupported

Lt(x, y) == ~IsNaN(x) /\ ~IsNaN(y) /\ ~Leq(y, x)

Geq(x, y) == Leq(y, x)

\* f64::max and f64::min: a NaN operand is ignored
fmax(x, y) ==
    IF IsNaN(x) THEN y ELSE IF IsNaN(y) THEN x
    ELSE IF Leq(x, y) THEN y ELSE x

fmin(x, y) ==
    IF IsNaN(x) THEN y ELSE IF IsNaN(y) THEN x
    ELSE IF Leq(x, y) THEN x ELSE y

fabs(x) == IF IsNaN(x) THEN NAN ELSE IF Sign(x) < 0 THEN Neg(x) ELSE x

\* the roots (p + q*sqrt(k)) / (2d) of a finite x >= 0 with an irrational part
\* (p + q*sqrt(k))^2 = A + B*sqrt(k) with |p| <= M
RootsWithin(A, B, k, d, M) ==
    {pq \in {<<p, B \div (2 * p)>> :
                p \in {p \in ((0 - M) .. M) \ {0} : B % (2 * IAbs(p)) = 0}} :
        /\ pq[1] * pq[1] + k * pq[2] * pq[2] = A
        /\ Sign(Norm(pq[1], pq[2], k, 2 * d)) >= 0}

IrrationalRoots(x) ==
    RootsWithin(4 * x[1] * x[4], 4 * x[2] * x[4], x[3], x[4],
                IF x[1] < 0 THEN 0 ELSE ISqrt(4 * x[1] * x[4]))

RootValue(pq, x) == Norm(pq[1], pq[2], x[3], 2 * x[4])

\* whether f64::sqrt(x) has a value in the model
SqrtExact(x) ==
    \/ ~IsFinite(x)
    \/ Sign(x) <= 0
    \/ x[2] = 0
    \/ IrrationalRoots(x) # {}

sqrt(x) ==
    IF IsNaN(x) THEN NAN
    ELSE IF Sign(x) < 0 THEN NAN
    ELSE IF ~IsFinite(x) \/ Sign(x) = 0 THEN x
    ELSE IF x[2] = 0 THEN Norm(0, 1, x[1] * x[4], x[4])
    ELSE RootValue(CHOOSE r \in IrrationalRoots(x) : TRUE, x)

\* ----------------------------------------------------------------- angles

TurnUnits == 600

Half == Frac(1, 2)

Rt2 == Norm(0, 1, 2, 2)

Rt3 == Norm(0, 1, 3, 2)

\* cos at the angles of the first quadrant that have an exact value
CosQ1(u) ==
    CASE u = 0   -> One
      [] u = 50  -> Rt3
      [] u = 60  -> Norm(1, 1, 5, 4)
      [] u = 75  -> Rt2
      [] u = 100 -> Half
      [] u = 120 -> Norm(-1, 1, 5, 4)
      [] u = 150 -> Zero
      [] OTHER   -> Unsupported

\* cos at u units, 0 <= u < TurnUnits, by the symmetries of the cosine
CosTurn(u) ==
    IF u <= 150 THEN CosQ1(u)
    ELSE IF u <= 300 THEN Neg(CosQ1(300 - u))
    ELSE IF u <= 450 THEN Neg(CosQ1(u - 300))
    ELSE CosQ1(TurnUnits - u)

cos(angle) == CosTurn(angle % TurnUnits)

sin(angle) == cos(angle - 150)

\* x * angle.cos() and x * angle.sin(): 0.0 times the cosine or sine of any
\* angle is 0.0, also where the cosine has no value in the model
TimesCos(x, angle) == IF x = Zero THEN Zero ELSE Mul(x, cos(angle))

TimesSin(x, angle) == IF x = Zero THEN Zero ELSE Mul(x, sin(angle))


\* TAU / n for an integer n >= 1 (a whole number of units for the n used)
TauOver(n) == IF TurnUnits % n = 0 THEN TurnUnits \div n ELSE Unsupported

\* ---------------------------------------------------------------- vectors

Vec2(x, y) == <<x, y>>

VZero == Vec2(Zero, Zero)

VAdd(v, w) == Vec2(Add(v[1], w[1]), Add(v[2], w[2]))

VSub(v, w) == Vec2(Sub(v[1], w[1]), Sub(v[2], w[2]))

VNeg(v) == Vec2(Neg(v[1]), Neg(v[2]))

VScale(f, v) == Vec2(Mul(f, v[1]), Mul(f, v[2]))

dot(v, w) == Add(Mul(v[1], w[1]), Mul(v[2], w[2]))

magnitude_squared(v) == dot(v, v)

magnitude(v) == sqrt(magnitude_squared(v))

\* Rotation2::new(angle) * v
Rotation2(angle, v) ==
    Vec2(Sub(Mul(cos(angle), v[1]), Mul(sin(angle), v[2])),
         Add(Mul(sin(angle), v[1]), Mul(cos(angle), v[2])))

\* the unit vector at an angle
Normal(angle) == Vec2(cos(angle), sin(angle))

RECURSIVE FoldMax(_, _)
FoldMax(s, acc) == IF s = <<>> THEN acc ELSE FoldMax(Tail(s), fmax(acc, Head(s)))

RECURSIVE FoldMin(_, _)
FoldMin(s, acc) == IF s = <<>> THEN acc ELSE FoldMin(Tail(s), fmin(acc, Head(s)))

\* Iterator::filter on a sequence of numbers: those >= 0
RECURSIVE FilterNonNeg(_)
FilterNonNeg(s) ==
    IF s = <<>> THEN <<>>
    ELSE IF Geq(Head(s), Zero) THEN <<Head(s)>> \o FilterNonNeg(Tail(s))
    ELSE FilterNonNeg(Tail(s))

\* ---------------------------------------------------- bounding.rs: shapes

\* from + factor * diff of vector_to_line
Foot(from, to, diff) ==
    VAdd(from, VScale(Div(Sub(magnitude_squared(from), dot(from, to)),
                          magnitude_squared(diff)),
                      diff))

vector_to_line(from, to) == Foot(from, to, VSub(to, from))

Line(start, end) == [kind |-> "Line", start |-> start, end |-> end]

Line_outer_coords_range(l) ==
    << <<fmin(l.start[1], l.end[1]), fmax(l.start[1], l.end[1])>>,
       <<fmin(l.start[2], l.end[2]), fmin(l.start[2], l.end[2])>> >>

Line_outer_radius(l) ==
    sqrt(fmax(magnitude_squared(l.start), magnitude_squared(l.end)))

Line_outer_radius_at(l, angle) ==
    sqrt(fmax(Zero, magnitude_squared(vector_to_line(l.start, l.end))))

Line_scale(l, factor) ==
    [l EXCEPT !.start = VScale(factor, l.start), !.end = VScale(factor, l.end)]

Line_rotate(l, angle) ==
    [l EXCEPT !.start = Rotation2(angle, l.start),
              !.end = Rotation2(angle, l.end)]

Line_translate(l, amount) ==
    [l EXCEPT !.start = VAdd(l.start, amount), !.end = VAdd(l.end, amount)]

Circle_new(radius, center) ==
    [kind |-> "Circle", radius |-> radius, offset |-> VNeg(center)]

Circle_from_radius(radius) == Circle_new(radius, VZero)

Circle_center(c) == VNeg(c.offset)

Circle_outer_coords_range(c) ==
    << <<Sub(c.offset[1], c.radius), Add(c.offset[1], c.radius)>>,
       <<Sub(c.offset[2], c.radius), Add(c.offset[2], c.radius)>> >>

Circle_outer_radius(c) == Add(c.radius, magnitude(c.offset))

\* Circle::outer_radius_at with the cosine taken for both coordinates
Circle_outer_radius_at_cos_twice(c, angle) ==
    Add(Add(Mul(c.offset[1], cos(angle)), Mul(c.offset[2], cos(angle))),
        c.radius)

Circle_outer_radius_at(c, angle) ==
    Add(Add(TimesCos(c.offset[1], angle), TimesSin(c.offset[2], angle)),
        c.radius)

Circle_inner_coords_range(c) ==
    << <<Neg(c.radius), c.radius>>, <<Neg(c.radius), c.radius>> >>

Circle_inner_radius(c) == c.radius

Circle_inner_radius_at(c, angle) == c.radius

\* Circle::translate with the offset assigned instead of added to
Circle_translate_assigning(c, amount) == [c EXCEPT !.offset = amount]

Circle_translate(c, amount) == [c EXCEPT !.offset = VAdd(c.offset, amount)]

Circle_rotate(c, angle) == [c EXCEPT !.offset = Rotation2(-angle, c.offset)]

Circle_scale(c, factor) ==
    [c EXCEPT !.radius = Mul(c.radius, factor),
              !.offset = VScale(factor, c.offset)]

Rect_new(width, height, rotation, center) ==
    [kind |-> "Rect", width |-> width, height |-> height,
     offset |-> VNeg(center), rotation |-> rotation]

Rect_from_width_height_rotation(width, height, rotation) ==
    Rect_new(width, height, rotation, VZero)

Rect_from_width_height(width, height) ==
    Rect_from_width_height_rotation(width, height, 0)

Rect_center(r) == VNeg(r.offset)

\* RectVertices: the four vertices in the iterator's order
RectSigns == << <<-1, -1>>, <<1, -1>>, <<1, 1>>, <<-1, 1>> >>

RectVertices(r) ==
    [idx \in 1 .. 4 |->
        VAdd(Rotation2(r.rotation,
                       Vec2(Mul(Num(RectSigns[idx][1]), Div(r.width, Num(2))),
                            Mul(Num(RectSigns[idx][2]), Div(r.height, Num(2))))),
             r.offset)]

Rect_translate(r, amount) == [r EXCEPT !.offset = VAdd(r.offset, amount)]

\* Rect::rotate with the rotation assigned instead of added to
Rect_rotate_assigning(r, angle) ==
    [r EXCEPT !.rotation = angle, !.offset = Rotation2(-angle, r.offset)]

Rect_rotate(r, angle) ==
    [r EXCEPT !.rotation = r.rotation + angle,
              !.offset = Rotation2(-angle, r.offset)]

Rect_scale(r, factor) ==
    [r EXCEPT !.width = Mul(r.width, factor),
              !.height = Mul(r.height, factor),
              !.offset = VScale(factor, r.offset)]

RegularPolygon_new(num_sides, outer_radius, rotation) ==
    [kind |-> "RegularPolygon", num_sides |-> num_sides,
     outer_radius |-> outer_radius, rotation |-> rotation, offset |-> VZero]

RegularPolygon_center(p) == VNeg(p.offset)

\* RegularPolygonVertices: the num_sides vertices in the iterator's order
RegularPolygonVertices(p) ==
    [i \in 1 .. p.num_sides |->
        VScale(p.outer_radius, Normal((i - 1) * TauOver(p.num_sides)))]

RegularPolygon_translate(p, amount) ==
    [p EXCEPT !.offset = VAdd(p.offset, amount)]

RegularPolygon_rotate(p, angle) ==
    [p EXCEPT !.rotation = p.rotation + angle,
              !.offset = Rotation2(-angle, p.offset)]

RegularPolygon_scale(p, factor) ==
    [p EXCEPT !.outer_radius = Mul(p.outer_radius, factor),
              !.offset = VScale(factor, p.offset)]

\* Polygon::vertices of the two polygon kinds
vertices(p) ==
    IF p.kind = "Rect" THEN RectVertices(p) ELSE RegularPolygonVertices(p)

\* Polygon::sides: PolygonSides run to its end, one foot per edge and the
\* closing edge last
PolygonSides(v) ==
    [i \in 1 .. Len(v) |-> vector_to_line(v[i], v[(i % Len(v)) + 1])]

sides(p) == PolygonSides(vertices(p))

Xs(vs) == [i \in 1 .. Len(vs) |-> vs[i][1]]

Ys(vs) == [i \in 1 .. Len(vs) |-> vs[i][2]]

\* the map closures of the polygon queries, each over a sequence of vectors
MagnitudesSquared(vs) == [i \in 1 .. Len(vs) |-> magnitude_squared(vs[i])]

Projections(vs, normal) == [i \in 1 .. Len(vs) |-> dot(vs[i], normal)]

Distances(vs, normal) ==
    [i \in 1 .. Len(vs) |-> Div(magnitude_squared(vs[i]), dot(vs[i], normal))]

\* the x and y ranges of the outer queries: folds from 0.0
OuterRanges(xs, ys) ==
    << <<FoldMin(xs, Zero), FoldMax(xs, Zero)>>,
       <<FoldMin(ys, Zero), FoldMax(ys, Zero)>> >>

\* the x and y ranges of the inner queries: folds from -inf and +inf
InnerRanges(xs, ys) ==
    << <<FoldMax(xs, NEG_INFINITY), FoldMin(xs, INFINITY)>>,
       <<FoldMax(ys, NEG_INFINITY), FoldMin(ys, INFINITY)>> >>

VerticesRange(v) == OuterRanges(Xs(v), Ys(v))

SidesRange(s) == InnerRanges(Xs(s), Ys(s))

Polygon_outer_coords_range(p) == VerticesRange(vertices(p))

Polygon_outer_radius(p) ==
    sqrt(FoldMax(MagnitudesSquared(vertices(p)), Zero))

Polygon_outer_radius_at(p, angle) ==
    FoldMax(Projections(vertices(p), Normal(angle)), Zero)

Polygon_inner_coords_range(p) == SidesRange(sides(p))

Polygon_inner_radius(p) ==
    sqrt(FoldMin(MagnitudesSquared(sides(p)), INFINITY))

Polygon_inner_radius_at(p, angle) ==
    FoldMin(FilterNonNeg(Distances(sides(p), Normal(angle))), INFINITY)

\* Vec<S>: a collection of shapes
ShapeVec(items) == [kind |-> "Vec", items |-> items]

IsPolygon(s) == s.kind \in {"Rect", "RegularPolygon"}

\* the ranges of a Vec from the ranges r of its items
VecRange(r) ==
    << <<FoldMin([i \in 1 .. Len(r) |-> r[i][1][1]], Zero),
         FoldMax([i \in 1 .. Len(r) |-> r[i][1][2]], Zero)>>,
       <<FoldMin([i \in 1 .. Len(r) |-> r[i][2][1]], Zero),
         FoldMax([i \in 1 .. Len(r) |-> r[i][2][2]], Zero)>> >>

\* OuterShape, dispatched on the kind of shape
RECURSIVE outer_coords_range(_)
outer_coords_range(s) ==
    CASE s.kind = "Line"   -> Line_outer_coords_range(s)
      [] s.kind = "Circle" -> Circle_outer_coords_range(s)
      [] IsPolygon(s)      -> Polygon_outer_coords_range(s)
      [] s.kind = "Vec"    ->
            VecRange([i \in 1 .. Len(s.items) |->
                         outer_coords_range(s.items[i])])

RECURSIVE outer_radius(_)
outer_radius(s) ==
    CASE s.kind = "Line"   -> Line_outer_radius(s)
      [] s.kind = "Circle" -> Circle_outer_radius(s)
      [] IsPolygon(s)      -> Polygon_outer_radius(s)
      [] s.kind = "Vec"    ->
            FoldMax([i \in 1 .. Len(s.items) |-> outer_radius(s.items[i])], Zero)

RECURSIVE outer_radius_at(_, _)
outer_radius_at(s, angle) ==
    CASE s.kind = "Line"   -> Line_outer_radius_at(s, angle)
      [] s.kind = "Circle" -> Circle_outer_radius_at(s, angle)
      [] IsPolygon(s)      -> Polygon_outer_radius_at(s, angle)
      [] s.kind = "Vec"    ->
            FoldMax([i \in 1 .. Len(s.items) |->
                        outer_radius_at(s.items[i], angle)], Zero)

\* InnerShape, dispatched on the kind of shape
inner_coords_range(s) ==
    IF s.kind = "Circle" THEN Circle_inner_coords_range(s)
    ELSE Polygon_inner_coords_range(s)

inner_radius(s) ==
    IF s.kind = "Circle" THEN Circle_inner_radius(s) ELSE Polygon_inner_radius(s)

inner_radius_at(s, angle) ==
    IF s.kind = "Circle" THEN Circle_inner_radius_at(s, angle)
    ELSE Polygon_inner_radius_at(s, angle)

\* ShapeMut, dispatched on the kind of shape
translate(s, amount) ==
    CASE s.kind = "Line"           -> Line_translate(s, amount)
      [] s.kind = "Circle"         -> Circle_translate(s, amount)
      [] s.kind = "Rect"           -> Rect_translate(s, amount)
      [] s.kind = "RegularPolygon" -> RegularPolygon_translate(s, amount)

rotate(s, angle) ==
    CASE s.kind = "Line"           -> Line_rotate(s, angle)
      [] s.kind = "Circle"         -> Circle_rotate(s, angle)
      [] s.kind = "Rect"           -> Rect_rotate(s, angle)
      [] s.kind = "RegularPolygon" -> RegularPolygon_rotate(s, angle)

scale(s, factor) ==
    CASE s.kind = "Line"           -> Line_scale(s, factor)
      [] s.kind = "Circle"         -> Circle_scale(s, factor)
      [] s.kind = "Rect"           -> Rect_scale(s, factor)
      [] s.kind = "RegularPolygon" -> RegularPolygon_scale(s, factor)

\* ------------------------------------------- bounding.rs: wrap and fill
\* (with no sides, TAU / 0 is +inf, its cosine NaN, and the empty reduce
\* gives the default 0.0)

Circle_wrap(s) == Circle_from_radius(outer_radius(s))

Circle_fill(s) == Circle_from_radius(fmax(Zero, inner_radius(s)))

\* Rect::wrap from the ((x_min, x_max), (y_min, y_max)) of the shape
WrapRanges(r) ==
    Rect_from_width_height(
        Mul(Num(2), fmax(fabs(r[1][1]), fabs(r[1][2]))),
        Mul(Num(2), fmax(fabs(r[2][1]), fabs(r[2][2]))))

Rect_wrap(s) == WrapRanges(outer_coords_range(s))

Rect_wrap_rotated(s, rotation) ==
    Rect_from_width_height_rotation(
        fmax(outer_radius_at(s, rotation),
             outer_radius_at(s, rotation + TurnUnits \div 2)),
        fmax(outer_radius_at(s, rotation + TurnUnits \div 4),
             outer_radius_at(s, rotation + (3 * TurnUnits) \div 4)),
        rotation)

\* Rect::fill from the ((x_min, x_max), (y_min, y_max)) of the shape
FillRanges(r) ==
    Rect_from_width_height(
        fmax(Zero, Mul(Num(2), fmin(fabs(r[1][1]), fabs(r[1][2])))),
        fmax(Zero, Mul(Num(2), fmin(fabs(r[2][1]), fabs(r[2][2])))))

Rect_fill(s) == FillRanges(inner_coords_range(s))

Rect_fill_rotated(s, rotation) ==
    Rect_from_width_height_rotation(
        fmax(Zero, fmin(inner_radius_at(s, rotation),
                        inner_radius_at(s, rotation + TurnUnits \div 2))),
        fmax(Zero, fmin(inner_radius_at(s, rotation + TurnUnits \div 4),
                        inner_radius_at(s, rotation + (74 * TurnUnits) \div 100))),
        rotation)

\* the outer radius of the shape at the bisector of each face, reduced by max
BisectorRadii(s, num_sides, rotation, segment_angle) ==
    [i \in 0 .. num_sides - 1 |->
        outer_radius_at(s, rotation + segment_angle \div 2 + i * segment_angle)]

\* Iterator::reduce(f64::max) and reduce(f64::min) over f[0 .. n-1], n >= 1
RECURSIVE ReduceMax(_, _)
ReduceMax(f, n) == IF n = 1 THEN f[0] ELSE fmax(ReduceMax(f, n - 1), f[n - 1])

RECURSIVE ReduceMin(_, _)
ReduceMin(f, n) == IF n = 1 THEN f[0] ELSE fmin(ReduceMin(f, n - 1), f[n - 1])

\* RegularPolygon::wrap with the inner radius taken for the outer radius
RegularPolygon_wrap_unpadded(s, num_sides, rotation) ==
    RegularPolygon_new(
        num_sides,
        ReduceMax(BisectorRadii(s, num_sides, rotation, TauOver(num_sides)),
                  num_sides),
        rotation)

RegularPolygon_wrap(s, num_sides, rotation) ==
    IF num_sides = 0
    THEN RegularPolygon_new(num_sides, Div(Zero, NAN), rotation)
    ELSE RegularPolygon_new(
             num_sides,
             Div(ReduceMax(BisectorRadii(s, num_sides, rotation,
                                         TauOver(num_sides)),
                           num_sides),
                 cos(TauOver(num_sides) \div 2)),
             rotation)

\* the inner radius of the shape towards each vertex, reduced by min
VertexRadii(s, num_sides, rotation, segment_angle) ==
    [i \in 0 .. num_sides - 1 |-> inner_radius_at(s, rotation + i * segment_angle)]

RegularPolygon_fill(s, num_sides, rotation) ==
    IF num_sides = 0
    THEN RegularPolygon_new(num_sides, Zero, rotation)
    ELSE RegularPolygon_new(
             num_sides,
             ReduceMin(VertexRadii(s, num_sides, rotation, TauOver(num_sides)),
                       num_sides),
             rotation)

\* ------------------------------------------------------ font.rs: measure

\* Font::measure for a text whose lines have the given widths: one Rect per
\* line, moved to its line's height (no lines, no Rects)
measure(line_widths, text_height, line_height) ==
    [i \in 1 .. Len(line_widths) |->
        Rect_translate(
            Rect_from_width_height(line_widths[i], text_height),
            Vec2(Zero,
                 Mul(Sub(Num(i - 1),
                         Mul(Half, Sub(Num(Len(line_widths)), One))),
                     line_height)))]

\* ------------------------------------------------ layout.rs: layout nodes
\* (a node is a record tagged by its field node; its boundary shapes are
\* records of the kernel)

RECURSIVE LayoutNode_for_Node(_, _, _)

\* impl LayoutNode for Vec<Node>: op is "scale", "rotate" or "translate"
LayoutNode_for_Vec_Node(nodes, op, arg) ==
    [i \in 1 .. Len(nodes) |-> LayoutNode_for_Node(nodes[i], op, arg)]

LayoutNode_for_Symbol(s, op, arg) ==
    CASE op = "scale" ->
            [s EXCEPT !.boundary =
                [i \in 1 .. Len(s.boundary) |->
                                Rect_scale(s.boundary[i], arg)]]
      [] op = "rotate" ->
            [s EXCEPT !.boundary =
                [i \in 1 .. Len(s.boundary) |->
                                Rect_rotate(s.boundary[i], arg)]]
      [] op = "translate" ->
            [s EXCEPT !.boundary =
                [i \in 1 .. Len(s.boundary) |->
                                Rect_translate(s.boundary[i], arg)]]

LayoutNode_for_Phrase(p, op, arg) ==
    CASE op = "scale" ->
            [p EXCEPT !.boundary =
                [i \in 1 .. Len(p.boundary) |->
                                Rect_scale(p.boundary[i], arg)]]
      [] op = "rotate" ->
            [p EXCEPT !.boundary =
                [i \in 1 .. Len(p.boundary) |->
                                Rect_rotate(p.boundary[i], arg)]]
      [] op = "translate" ->
            [p EXCEPT !.boundary =
                [i \in 1 .. Len(p.boundary) |->
                                Rect_translate(p.boundary[i], arg)]]

LayoutNode_for_Pentagram(p, op, arg) ==
    CASE op = "scale" ->
            [p EXCEPT !.boundary = RegularPolygon_scale(p.boundary, arg)]
      [] op = "rotate" ->
            [p EXCEPT !.boundary = RegularPolygon_rotate(p.boundary, arg),
                      !.child = LayoutNode_for_Node(p.child, op, arg)]
      [] op = "translate" ->
            [p EXCEPT !.boundary = RegularPolygon_translate(p.boundary, arg),
                      !.child = LayoutNode_for_Node(p.child, op, arg)]

LayoutNode_for_Circle(c, op, arg) ==
    CASE op = "translate" ->
            [c EXCEPT !.boundary = Circle_translate(c.boundary, arg),
                      !.content = LayoutNode_for_Node(c.content, op, arg),
                      !.rim = LayoutNode_for_Vec_Node(c.rim, op, arg)]
      [] op = "rotate" ->
            [c EXCEPT !.boundary = Circle_rotate(c.boundary, arg),
                      !.rim = LayoutNode_for_Vec_Node(c.rim, op, arg),
                      !.content = LayoutNode_for_Node(c.content, op, arg)]
      [] op = "scale" ->
            [c EXCEPT !.boundary = Circle_scale(c.boundary, arg),
                      !.rim = LayoutNode_for_Vec_Node(c.rim, op, arg)]

LayoutNode_for_RegularPolygon(p, op, arg) ==
    CASE op = "translate" ->
            [p EXCEPT !.boundary = RegularPolygon_translate(p.boundary, arg),
                      !.child = LayoutNode_for_Node(p.child, op, arg)]
      [] op = "scale" ->
            [p EXCEPT !.boundary = RegularPolygon_scale(p.boundary, arg),
                      !.child = LayoutNode_for_Node(p.child, op, arg)]
      [] op = "rotate" ->
            [p EXCEPT !.boundary = RegularPolygon_rotate(p.boundary, arg),
                      !.child = LayoutNode_for_Node(p.child, op, arg)]

LayoutNode_for_Decorated(d, op, arg) ==
    CASE op = "translate" ->
            [d EXCEPT !.decoration_rect = Rect_translate(d.decoration_rect, arg),
                      !.child = LayoutNode_for_Node(d.child, op, arg)]
      [] op = "rotate" ->
            [d EXCEPT !.decoration_rect = Rect_rotate(d.decoration_rect, arg),
                      !.child = LayoutNode_for_Node(d.child, op, arg)]
      [] op = "scale" ->
            [d EXCEPT !.decoration_rect = Rect_scale(d.decoration_rect, arg),
                      !.child = LayoutNode_for_Node(d.child, op, arg)]

LayoutNode_for_Emphasized(e, op, arg) ==
    CASE op = "translate" ->
            [e EXCEPT !.boundary = Circle_translate(e.boundary, arg),
                      !.child = LayoutNode_for_Node(e.child, op, arg)]
      [] op = "rotate" ->
            [e EXCEPT !.boundary = Circle_rotate(e.boundary, arg),
                      !.child = LayoutNode_for_Node(e.child, op, arg)]
      [] op = "scale" ->
            [e EXCEPT !.boundary = Circle_scale(e.boundary, arg),
                      !.child = LayoutNode_for_Node(e.child, op, arg)]

LayoutNode_for_Link(l, op, arg) ==
    CASE op = "translate" ->
            [l EXCEPT !.segments =
                [i \in 1 .. Len(l.segments) |->
                                Line_translate(l.segments[i], arg)],
                      !.items = LayoutNode_for_Vec_Node(l.items, op, arg)]
      [] op = "rotate" ->
            [l EXCEPT !.segments =
                [i \in 1 .. Len(l.segments) |->
                                Line_rotate(l.segments[i], arg)],
                      !.items = LayoutNode_for_Vec_Node(l.items, op, arg)]
      [] op = "scale" ->
            [l EXCEPT !.segments =
                [i \in 1 .. Len(l.segments) |->
                                Line_scale(l.segments[i], arg)],
                      !.items = LayoutNode_for_Vec_Node(l.items, op, arg)]

\* impl LayoutNode for Node, and the impls of Decorated and Emphasized, which
\* are no variants of Node
LayoutNode_for_Node(n, op, arg) ==
    CASE n.node = "Symbol"         -> LayoutNode_for_Symbol(n, op, arg)
      [] n.node = "Phrase"         -> LayoutNode_for_Phrase(n, op, arg)
      [] n.node = "Pentagram"      -> LayoutNode_for_Pentagram(n, op, arg)
      [] n.node = "Circle"         -> LayoutNode_for_Circle(n, op, arg)
      [] n.node = "RegularPolygon" -> LayoutNode_for_RegularPolygon(n, op, arg)
      [] n.node = "Link"           -> LayoutNode_for_Link(n, op, arg)
      [] n.node = "Arrangement"    ->
            [n EXCEPT !.items = LayoutNode_for_Vec_Node(n.items, op, arg)]
      [] n.node = "Decorated"      -> LayoutNode_for_Decorated(n, op, arg)
      [] n.node = "Emphasized"     -> LayoutNode_for_Emphasized(n, op, arg)

\* LayoutNode::boundary of every kind of node
RECURSIVE boundary(_)
boundary(n) ==
    CASE n.node \in {"Symbol", "Phrase"} -> ShapeVec(n.boundary)
      [] n.node \in {"Pentagram", "RegularPolygon", "Emphasized"} -> n.boundary
      [] n.node = "Circle" ->
            ShapeVec(<<n.boundary>>
                     \o [i \in 1 .. Len(n.rim) |-> boundary(n.rim[i])])
      [] n.node = "Decorated" ->
            ShapeVec(<<n.decoration_rect, boundary(n.child)>>)
      [] n.node = "Link" ->
            ShapeVec(n.segments
                     \o [i \in 1 .. Len(n.items) |-> boundary(n.items[i])])
      [] n.node = "Arrangement" ->
            ShapeVec([i \in 1 .. Len(n.items) |-> boundary(n.items[i])])

\* ---------------------------------------------- layout.rs: construction
\* (Node::construct is todo!(): the children a constructor builds first are
\* given to it here as already constructed nodes)

Symbol_construct(line_widths, text_height, line_height) ==
    [node |-> "Symbol",
     boundary |-> measure(line_widths, text_height, line_height)]

Phrase_construct(line_widths, text_height, line_height) ==
    [node |-> "Phrase",
     boundary |-> measure(line_widths, text_height, line_height)]

\* (a variant that takes the double stroke's ratio for every stroke)
get_outer_radius_ratio_always_double(params, double) ==
    params.double_stroke_radius_ratio

get_outer_radius_ratio(params, double) ==
    IF double THEN params.double_stroke_radius_ratio ELSE One

\* node.scale(min_size / size) if size < min_size
ScaledUpTo(n, size, min_size) ==
    IF Lt(size, min_size)
    THEN LayoutNode_for_Node(n, "scale", Div(min_size, size))
    ELSE n

\* (a variant that asks of the content the largest rim size times the ratio)
apply_content_constraints_times(params, content, rim) ==
    ScaledUpTo(content, outer_radius(boundary(content)),
               Mul(FoldMax([i \in 1 .. Len(rim) |->
                               outer_radius(boundary(rim[i]))], Zero),
                   params.circle_max_rim_ratio))

apply_content_constraints(params, content, rim) ==
    ScaledUpTo(content, outer_radius(boundary(content)),
               Div(FoldMax([i \in 1 .. Len(rim) |->
                               outer_radius(boundary(rim[i]))], Zero),
                   params.circle_max_rim_ratio))

apply_rim_constraints(params, rim, mean_radius) ==
    [i \in 1 .. Len(rim) |->
        ScaledUpTo(rim[i], outer_radius(boundary(rim[i])),
                   Mul(params.circle_min_rim_ratio, mean_radius))]

BASE_RIM_ROTATION == 0 - TurnUnits \div 4

\* the translation of the rim item with boundary b placed at an angle
RimTranslation(params, b, angle, mean_radius, inner) ==
    VScale(Add(mean_radius,
               fmax(Zero,
                    Sub(Sub(Sub(mean_radius, inner),
                            outer_radius_at(b, angle - TurnUnits \div 2)),
                        Mul(params.circle_max_rim_overlap_ratio,
                            inner)))),
           Normal(angle))

\* (a variant that translates the item before it rotates it)
PositionedRimItem_translated_first(rim_node, orientation, translation) ==
    LayoutNode_for_Node(LayoutNode_for_Node(rim_node, "translate", translation),
                        "rotate", orientation)

\* one turn of the loop of position_rim_items
PositionedRimItem(rim_node, orientation, translation) ==
    LayoutNode_for_Node(LayoutNode_for_Node(rim_node, "rotate", orientation),
                        "translate", translation)

position_rim_items(params, rim, mean_radius, inner) ==
    [i \in 1 .. Len(rim) |->
        PositionedRimItem(
            rim[i], ((i - 1) * TurnUnits) \div Len(rim),
            RimTranslation(params, boundary(rim[i]),
                           ((i - 1) * TurnUnits) \div Len(rim)
                               + BASE_RIM_ROTATION,
                           mean_radius, inner))]

\* Circle::construct from the rim constraints on
Circle_construct_rim(params, double, content, rim, inner, mean_radius) ==
    [node |-> "Circle", double |-> double,
     boundary |-> Circle_from_radius(
                      Mul(inner, get_outer_radius_ratio(params, double))),
     rim |-> position_rim_items(
                 params, apply_rim_constraints(params, rim, mean_radius),
                 mean_radius, inner),
     content |-> LayoutNode_for_Node(content, "scale",
                                     params.circle_content_scale)]

\* Circle::construct from the inner circle on
Circle_construct_inner(params, double, content, rim, inner) ==
    Circle_construct_rim(
        params, double, content, rim, inner,
        Mul(Add(inner,
                Mul(inner, get_outer_radius_ratio(params, double))),
            Half))

\* Circle::construct from the content constraints on
\* (a variant that wraps the inner circle around the content after the
\* content scale)
Circle_construct_content_scaled_first(params, double, content, rim) ==
    Circle_construct_inner(
        params, double, content, rim,
        Circle_wrap(boundary(LayoutNode_for_Node(
                                 content, "scale",
                                 params.circle_content_scale))).radius)

Circle_construct_content(params, double, content, rim) ==
    Circle_construct_inner(params, double, content, rim,
                           Circle_wrap(boundary(content)).radius)

Circle_construct(params, double, content, rim) ==
    Circle_construct_content(
        params, double, apply_content_constraints(params, content, rim), rim)

INNER_ROTATION == TurnUnits \div 4

OUTER_ROTATION == 0 - TurnUnits \div 4

\* 2.618033988749895, the square of the golden ratio
INNER_OUTER_RADIUS_RATIO == Norm(3, 1, 5, 2)

\* outer_radius() of a RegularPolygon: sqrt of the largest |v|^2 over its
\* vertices v = outer_radius * (cos a, sin a), which is |outer_radius| as
\* cos^2 + sin^2 = 1 (0.0 with no vertex); taken this way because the sines
\* of a pentagon's vertices have no value in the model
Circumradius(p) == IF p.num_sides = 0 THEN Zero ELSE fabs(p.outer_radius)

\* (a variant that gives the boundary the rotation of the inner pentagon)
Pentagram_construct_unturned(params, child) ==
    [node |-> "Pentagram",
     boundary |->
         RegularPolygon_new(
             5,
             Mul(INNER_OUTER_RADIUS_RATIO,
                 Circumradius(RegularPolygon_wrap(boundary(child), 5,
                                                  INNER_ROTATION))),
             INNER_ROTATION),
     child |-> LayoutNode_for_Node(child, "scale",
                                   params.polygon_content_scale)]

Pentagram_construct(params, child) ==
    [node |-> "Pentagram",
     boundary |->
         RegularPolygon_new(
             5,
             Mul(INNER_OUTER_RADIUS_RATIO,
                 Circumradius(RegularPolygon_wrap(boundary(child), 5,
                                                  INNER_ROTATION))),
             OUTER_ROTATION),
     child |-> LayoutNode_for_Node(child, "scale",
                                   params.polygon_content_scale)]

RegularPolygon_construct(params, num_sides, child) ==
    [node |-> "RegularPolygon", sides |-> num_sides,
     boundary |-> RegularPolygon_wrap(boundary(child), num_sides,
                                      0 - TurnUnits \div 4),
     child |-> LayoutNode_for_Node(child, "scale",
                                   params.polygon_content_scale)]

\* Decorated::get_deco_params and position_decoration for a child of a radius
position_decoration(params, radius, kind) ==
    IF kind = "Hat"
    THEN Rect_translate(
             Rect_from_width_height(
                 Mul(params.decoration_hat_relative_width, radius),
                 Mul(params.decoration_hat_relative_height, radius)),
             VScale(Mul(params.decoration_position_radius_ratio, radius),
                    Normal(0 - TurnUnits \div 4)))
    ELSE Rect_translate(
             Rect_from_width_height(
                 Mul(params.decoration_tilde_relative_width, radius),
                 Mul(params.decoration_tilde_relative_height, radius)),
             VScale(Mul(params.decoration_position_radius_ratio, radius),
                    Normal(TurnUnits \div 4)))

Decorated_construct(params, kind, child) ==
    [node |-> "Decorated", kind |-> kind,
     decoration_rect |->
         position_decoration(params, outer_radius(boundary(child)), kind),
     child |-> child]

Emphasized_construct(params, child) ==
    [node |-> "Emphasized",
     boundary |-> Circle_scale(Circle_wrap(boundary(child)),
                               params.emphasis_rays_radius_ratio),
     child |-> child]

\* ------------------------------------------------------------ the state

VARIABLES
    grid,       \* the angles of this run are the multiples of grid units
    shape,      \* the shape under translate / rotate / scale
    hist,       \* the last two operations on shape, each with the shape before it
    steps,      \* the number of operations applied to shape
    positive,   \* whether every scale factor so far was > 0
    derived,    \* the result of a wrap or fill of shape
    derived2,   \* the result of the dual wrap or fill of derived
    node,       \* the layout node under construction and the affine operations
    trace       \* the last operation on node, with its inputs

vars == <<grid, shape, hist, steps, positive, derived, derived2, node, trace>>

\* the bound on the number of operations applied to one shape
MaxOps == 2

None == [kind |-> "None"]

\* the angle grids: multiples of 30 degrees, multiples of 45 degrees
Grids == {50, 75}

\* every direction of the grid
Angles(g) == {i * g : i \in 0 .. (TurnUnits \div g) - 1}

\* the side counts whose face bisectors lie on the grid
SidesFor(g) == IF g = 50 THEN {3, 6} ELSE {4}

V(x, y) == Vec2(Num(x), Num(y))

\* the shapes the constructors are called with
InitialShapes(g) ==
    {Line(V(0, 1), V(2, 1)), Line(V(2, -1), V(2, 3)),
     Circle_new(Num(1), VZero), Circle_new(Num(2), V(1, 0)),
     Rect_from_width_height(Num(2), Num(2)),
     Rect_from_width_height_rotation(Num(4), Num(2), g),
     Rect_new(Num(2), Num(1), 0, V(1, 1))}
    \cup {RegularPolygon_new(n, Num(2), 0) : n \in SidesFor(g)}
    \cup {RegularPolygon_new(n, Num(1), g) : n \in SidesFor(g)}

\* the arguments of the three operations
Amounts == {V(1, 0), V(-1, 0), V(0, 2), V(0, -2)}

Turns(g) == {g, -g, 150, -150}

Factors == {Num(2), Frac(1, 2), Num(-1)}

Init ==
    /\ grid \in Grids
    /\ shape \in InitialShapes(grid)
    /\ hist = <<>>
    /\ steps = 0
    /\ positive = TRUE
    /\ derived = None
    /\ derived2 = None
    /\ node = None
    /\ trace = None

\* the last two entries of the history
Record(h, op, arg, pre) ==
    LET e == [op |-> op, arg |-> arg, pre |-> pre]
    IN  IF h = <<>> THEN <<e>> ELSE <<h[Len(h)], e>>

Translate(amount) ==
    /\ steps < MaxOps
    /\ shape' = translate(shape, amount)
    /\ hist' = Record(hist, "translate", amount, shape)
    /\ steps' = steps + 1
    /\ UNCHANGED <<grid, positive, derived, derived2, node, trace>>

Rotate(angle) ==
    /\ steps < MaxOps
    /\ shape' = rotate(shape, angle)
    /\ hist' = Record(hist, "rotate", angle, shape)
    /\ steps' = steps + 1
    /\ UNCHANGED <<grid, positive, derived, derived2, node, trace>>

Scale(factor) ==
    /\ steps < MaxOps
    /\ shape' = scale(shape, factor)
    /\ hist' = Record(hist, "scale", factor, shape)
    /\ steps' = steps + 1
    /\ positive' = (positive /\ Sign(factor) > 0)
    /\ UNCHANGED <<grid, derived, derived2, node, trace>>

Next ==
    \/ \E amount \in Amounts : Translate(amount)
    \/ \E angle \in Turns(grid) : Rotate(angle)
    \/ \E factor \in Factors : Scale(factor)

Spec == Init /\ [][Next]_vars

\* ------------------------------------------------ wrap and fill, applied

\* whether the square roots taken by the outer queries of a shape have a
\* value in the model
OuterRadiusExact(s) ==
    CASE s.kind = "Line" ->
            SqrtExact(fmax(magnitude_squared(s.start), magnitude_squared(s.end)))
      [] s.kind = "Circle" -> SqrtExact(magnitude_squared(s.offset))
      [] OTHER -> SqrtExact(FoldMax(MagnitudesSquared(vertices(s)), Zero))

OuterRadiusAtExact(s) ==
    s.kind = "Line" =>
        SqrtExact(fmax(Zero, magnitude_squared(vector_to_line(s.start, s.end))))


\* the shapes wrap and fill are called with: a constructed shape, or one
\* after a single translate, rotate or scale by a positive factor
PreparedShapes(g) ==
    InitialShapes(g)
    \cup {translate(s, d) : s \in InitialShapes(g), d \in Amounts}
    \cup {rotate(s, a) : s \in InitialShapes(g), a \in Turns(g)}
    \cup {scale(s, f) : s \in InitialShapes(g), f \in {Num(2), Frac(1, 2)}}

InnerKinds == {"Circle", "Rect", "RegularPolygon"}

InnerRadiusExact(s) ==
    s.kind # "Circle" =>
        SqrtExact(FoldMin(MagnitudesSquared(sides(s)), INFINITY))

WrapFillOps ==
    {"Circle::wrap", "Circle::fill", "Rect::wrap", "Rect::wrap_rotated",
     "Rect::fill", "Rect::fill_rotated", "RegularPolygon::wrap",
     "RegularPolygon::fill"}

TakesRotation(op) ==
    op \in {"Rect::wrap_rotated", "Rect::fill_rotated", "RegularPolygon::wrap",
            "RegularPolygon::fill"}

TakesSides(op) == op \in {"RegularPolygon::wrap", "RegularPolygon::fill"}

\* whether the call op(s, ..) is made: fill needs an InnerShape, and the
\* square roots and cosines the call takes must have a value in the model
\* (fill_rotated samples at 0.74 of a turn, which only a Circle ignores)
Callable(op, s) ==
    CASE op = "Circle::wrap" -> OuterRadiusExact(s)
      [] op = "Circle::fill" -> s.kind \in InnerKinds /\ InnerRadiusExact(s)
      [] op = "Rect::wrap" -> TRUE
      [] op = "Rect::wrap_rotated" -> OuterRadiusAtExact(s)
      [] op = "Rect::fill" -> s.kind \in InnerKinds
      [] op = "Rect::fill_rotated" -> s.kind = "Circle"
      [] op = "RegularPolygon::wrap" -> OuterRadiusAtExact(s)
      [] op = "RegularPolygon::fill" -> s.kind \in InnerKinds

Call(op, s, num_sides, rotation) ==
    CASE op = "Circle::wrap" -> Circle_wrap(s)
      [] op = "Circle::fill" -> Circle_fill(s)
      [] op = "Rect::wrap" -> Rect_wrap(s)
      [] op = "Rect::wrap_rotated" -> Rect_wrap_rotated(s, rotation)
      [] op = "Rect::fill" -> Rect_fill(s)
      [] op = "Rect::fill_rotated" -> Rect_fill_rotated(s, rotation)
      [] op = "RegularPolygon::wrap" -> RegularPolygon_wrap(s, num_sides, rotation)
      [] op = "RegularPolygon::fill" -> RegularPolygon_fill(s, num_sides, rotation)

\* the dual of a wrap or fill without a rotation
Dual(op) ==
    CASE op = "Circle::wrap" -> "Circle::fill"
      [] op = "Circle::fill" -> "Circle::wrap"
      [] op = "Rect::wrap" -> "Rect::fill"
      [] op = "Rect::fill" -> "Rect::wrap"

Derivation(op, num_sides, rotation, result) ==
    [kind |-> "Derived", op |-> op, num_sides |-> num_sides,
     rotation |-> rotation, result |-> result]

InitDerive ==
    /\ grid \in Grids
    /\ shape \in PreparedShapes(grid)
    /\ hist = <<>>
    /\ steps = 0
    /\ positive = TRUE
    /\ derived = None
    /\ derived2 = None
    /\ node = None
    /\ trace = None

\* K::wrap(&shape, ..) or K::fill(&shape, ..)
Derive(op, num_sides, rotation) ==
    /\ derived = None
    /\ Callable(op, shape)
    /\ derived' = Derivation(op, num_sides, rotation,
                             Call(op, shape, num_sides, rotation))
    /\ UNCHANGED <<grid, shape, hist, steps, positive, derived2, node, trace>>

\* the dual call on the result: K::wrap(K::fill(shape)), K::fill(K::wrap(shape))
DeriveDual ==
    /\ derived # None
    /\ derived2 = None
    /\ ~TakesRotation(derived.op)
    /\ Callable(Dual(derived.op), derived.result)
    /\ derived2' = Derivation(Dual(derived.op), 0, 0,
                              Call(Dual(derived.op), derived.result, 0, 0))
    /\ UNCHANGED <<grid, shape, hist, steps, positive, derived, node, trace>>

NextDerive ==
    \/ \E op \in WrapFillOps :
         \E n \in (IF TakesSides(op) THEN SidesFor(grid) ELSE {0}) :
           \E r \in (IF TakesRotation(op) THEN {0, grid} ELSE {0}) :
             Derive(op, n, r)
    \/ DeriveDual

SpecDerive == InitDerive /\ [][NextDerive]_vars

\* ------------------------------------------------- layout nodes, applied

\* the bound on the number of operations applied to one layout node
MaxNodeOps == 2

\* the LayoutParams of the runs
ParamSets ==
    {[emphasis_rays_radius_ratio |-> Frac(3, 2),
      decoration_hat_relative_width |-> One,
      decoration_hat_relative_height |-> Frac(1, 5),
      decoration_tilde_relative_width |-> Frac(4, 5),
      decoration_tilde_relative_height |-> Frac(2, 5),
      decoration_position_radius_ratio |-> Frac(6, 5),
      circle_content_scale |-> Frac(4, 5),
      double_stroke_radius_ratio |-> Frac(6, 5),
      circle_max_rim_overlap_ratio |-> Frac(1, 10),
      circle_min_rim_ratio |-> Frac(3, 10),
      circle_max_rim_ratio |-> Num(2),
      polygon_content_scale |-> Frac(4, 5)]}

\* the measured texts: one line of circumradius 10, 5 and 1/2, an empty
\* text, and two lines of circumradius 5
Symbols ==
    {Symbol_construct(<<Num(12)>>, Num(16), Num(20)),
     Symbol_construct(<<Num(6)>>, Num(8), Num(10)),
     Symbol_construct(<<Frac(3, 5)>>, Frac(4, 5), One),
     Symbol_construct(<<>>, Num(16), Num(20))}

Phrases == {Phrase_construct(<<Num(6), Num(6)>>, Num(4), Num(4))}

\* nodes given as values: a Pentagram around a text (the sines of a pentagon
\* have no value here, so no text can be wrapped in one), a Link
\* (Link::construct is todo!()) and an Arrangement (built by Node::construct,
\* todo!())
GivenNodes ==
    {[node |-> "Pentagram",
      boundary |-> RegularPolygon_new(5, Num(26), 0 - TurnUnits \div 4),
      child |-> Symbol_construct(<<Num(6)>>, Num(8), Num(10))],
     [node |-> "Link",
      segments |-> <<Line(V(-3, 4), V(3, 4))>>,
      items |-> <<Symbol_construct(<<Num(6)>>, Num(8), Num(10)),
                  Phrase_construct(<<Num(6), Num(6)>>, Num(4), Num(4))>>],
     [node |-> "Arrangement",
      items |-> <<Symbol_construct(<<Num(6)>>, Num(8), Num(10)),
                  Symbol_construct(<<Frac(3, 5)>>, Frac(4, 5), One)>>]}

\* constructed nodes bounded by circles about the origin: a Circle without a
\* rim around a text of circumradius 5, and an emphasized text
RoundNodes ==
    {Circle_construct(p, FALSE,
                      Symbol_construct(<<Num(6)>>, Num(8), Num(10)), <<>>) :
        p \in ParamSets}
    \cup {Emphasized_construct(
              p, Symbol_construct(<<Num(12)>>, Num(16), Num(20))) :
              p \in ParamSets}

\* whether every boundary shape of a built node is a circle about the origin
RoundBounded(n) ==
    \/ n.node = "Emphasized"
    \/ n.node = "Circle" /\ n.rim = <<>>
    \/ n.node = "Symbol" /\ n.boundary = <<>>

\* the children Node::construct hands to a constructor
BuiltNodes == Symbols \cup Phrases \cup GivenNodes \cup RoundNodes

\* whether the queries on the boundary of a built node have a value in the
\* model
Queryable(n) == n.node # "Pentagram"

\* the rims of a Circle: none, one text of each size, 2 or 4 equal texts,
\* two different texts and, on the grid of 30 degrees, 3 or 6 equal
\* emphasized texts
RimLists(g) ==
    {<<>>,
     <<Symbol_construct(<<Num(6)>>, Num(8), Num(10)),
       Phrase_construct(<<Num(6), Num(6)>>, Num(4), Num(4))>>}
    \cup {<<item>> : item \in Symbols}
    \cup {[i \in 1 .. n |-> Symbol_construct(<<Num(12)>>, Num(16), Num(20))] :
             n \in {2, 4}}
    \cup (IF g = 50
          THEN {[i \in 1 .. n |-> Emphasized_construct(p, item)] :
                   n \in {3, 6}, p \in ParamSets,
                   item \in {Symbol_construct(<<Num(6)>>, Num(8), Num(10))}}
          ELSE {})

InitLayout ==
    /\ grid \in Grids
    /\ node \in BuiltNodes
    /\ trace = None
    /\ shape = None
    /\ hist = <<>>
    /\ steps = 0
    /\ positive = TRUE
    /\ derived = None
    /\ derived2 = None

\* node.translate(amount)
NodeTranslate(amount) ==
    /\ steps < MaxNodeOps
    /\ node' = LayoutNode_for_Node(node, "translate", amount)
    /\ trace' = [op |-> "translate", arg |-> amount, pre |-> node]
    /\ steps' = steps + 1
    /\ UNCHANGED <<grid, shape, hist, positive, derived, derived2>>

\* node.rotate(angle)
NodeRotate(angle) ==
    /\ steps < MaxNodeOps
    /\ node' = LayoutNode_for_Node(node, "rotate", angle)
    /\ trace' = [op |-> "rotate", arg |-> angle, pre |-> node]
    /\ steps' = steps + 1
    /\ UNCHANGED <<grid, shape, hist, positive, derived, derived2>>

\* node.scale(factor)
NodeScale(factor) ==
    /\ steps < MaxNodeOps
    /\ node' = LayoutNode_for_Node(node, "scale", factor)
    /\ trace' = [op |-> "scale", arg |-> factor, pre |-> node]
    /\ steps' = steps + 1
    /\ UNCHANGED <<grid, shape, hist, positive, derived, derived2>>

\* Circle::construct with node as the constructed content
ConstructCircle(params, double, rim) ==
    /\ trace = None
    /\ Queryable(node)
    /\ node' = Circle_construct(params, double, node, rim)
    /\ trace' = [op |-> "Circle::construct", params |-> params,
                 double |-> double, content |-> node, rim |-> rim]
    /\ steps' = steps + 1
    /\ UNCHANGED <<grid, shape, hist, positive, derived, derived2>>

\* RegularPolygon::construct with node as the constructed child
ConstructRegularPolygon(params, num_sides) ==
    /\ trace = None
    /\ Queryable(node)
    /\ node' = RegularPolygon_construct(params, num_sides, node)
    /\ trace' = [op |-> "RegularPolygon::construct", params |-> params,
                 sides |-> num_sides, child |-> node]
    /\ steps' = steps + 1
    /\ UNCHANGED <<grid, shape, hist, positive, derived, derived2>>

\* Decorated::construct with node as the constructed child
ConstructDecorated(params, kind) ==
    /\ trace = None
    /\ Queryable(node)
    /\ node' = Decorated_construct(params, kind, node)
    /\ trace' = [op |-> "Decorated::construct", params |-> params,
                 kind |-> kind, child |-> node]
    /\ steps' = steps + 1
    /\ UNCHANGED <<grid, shape, hist, positive, derived, derived2>>

\* Emphasized::construct with node as the constructed child
ConstructEmphasized(params) ==
    /\ trace = None
    /\ Queryable(node)
    /\ node' = Emphasized_construct(params, node)
    /\ trace' = [op |-> "Emphasized::construct", params |-> params,
                 child |-> node]
    /\ steps' = steps + 1
    /\ UNCHANGED <<grid, shape, hist, positive, derived, derived2>>

\* Pentagram::construct with node as the constructed child
ConstructPentagram(params) ==
    /\ trace = None
    /\ RoundBounded(node)
    /\ node' = Pentagram_construct(params, node)
    /\ trace' = [op |-> "Pentagram::construct", params |-> params,
                 child |-> node]
    /\ steps' = steps + 1
    /\ UNCHANGED <<grid, shape, hist, positive, derived, derived2>>

NextLayout ==
    \/ \E amount \in {V(1, 0), V(0, -2)} : NodeTranslate(amount)
    \/ \E angle \in {grid, 0 - TurnUnits \div 4} : NodeRotate(angle)
    \/ \E factor \in {Num(2), Frac(1, 2)} : NodeScale(factor)
    \/ \E params \in ParamSets, double \in BOOLEAN, rim \in RimLists(grid) :
         ConstructCircle(params, double, rim)
    \/ \E params \in ParamSets, num_sides \in SidesFor(grid) :
         ConstructRegularPolygon(params, num_sides)
    \/ \E params \in ParamSets, kind \in {"Hat", "Tilde"} :
         ConstructDecorated(params, kind)
    \/ \E params \in ParamSets : ConstructEmphasized(params)
    \/ \E params \in ParamSets : ConstructPentagram(params)

SpecLayout == InitLayout /\ [][NextLayout]_vars

\* --------------------------------------------- claims on the shape kernel

\* the three outer queries of s and t agree (outer_radius_at in every
\* direction of the grid)
SameOuter(s, t) ==
    /\ outer_coords_range(s) = outer_coords_range(t)
    /\ OuterRadiusAtExact(s) /\ OuterRadiusAtExact(t) =>
          \A a \in Angles(grid) : outer_radius_at(s, a) = outer_radius_at(t, a)
    /\ OuterRadiusExact(s) /\ OuterRadiusExact(t) =>
          outer_radius(s) = outer_radius(t)

HasOffset(s) == s.kind \in {"Circle", "Rect", "RegularPolygon"}

\* the last two operations were op(x) and then op(y)
LastTwo(op, x, y) ==
    /\ Len(hist) = 2
    /\ hist[1].op = op /\ hist[2].op = op
    /\ hist[1].arg = x /\ hist[2].arg = y

\* C6: for every Circle, after any sequence of translate, rotate and scale,
\* and every angle: outer_radius_at(angle) = offset.x * cos(angle)
\* + offset.y * sin(angle) + radius.
C6_CircleSupport ==
    shape.kind = "Circle" =>
        \A a \in Angles(grid) :
            outer_radius_at(shape, a) =
                Add(dot(shape.offset, Normal(a)), shape.radius)

\* C6: a Circle that was translated and then rotated or scaled, so that its
\* stored offset is off both axes' origin.
C6_Witness ==
    /\ shape.kind = "Circle"
    /\ steps = MaxOps
    /\ shape.offset[1] # Zero /\ shape.offset[2] # Zero

\* C7: for every shape with a centre offset (Circle, Rect, RegularPolygon),
\* after any sequence of translate, rotate and scale by positive factors, and
\* every angle: outer_radius_at(angle) >= the projection of the offset onto
\* the direction at that angle.
C7_SupportAboveOffset ==
    (HasOffset(shape) /\ positive) =>
        \A a \in Angles(grid) :
            Geq(outer_radius_at(shape, a), dot(shape.offset, Normal(a)))

\* C7: a RegularPolygon moved off the origin whose outer radius in some
\* direction is below the projection of its offset.
C7_Witness ==
    /\ shape.kind = "RegularPolygon" /\ positive
    /\ \E a \in Angles(grid) :
          Lt(outer_radius_at(shape, a), dot(shape.offset, Normal(a)))

Wrapped(op) == derived # None /\ derived.op = op

\* the direction of the bisector of face i of an N-gon at a rotation
Bisector(rotation, num_sides, i) ==
    rotation + TauOver(num_sides) \div 2 + i * TauOver(num_sides)

\* C2: for every outer shape S, side count N >= 3 and rotation r, the polygon
\* P = RegularPolygon::wrap(S, N, r) has, at each of the N face bisectors
\* r + pi/N + i*2pi/N, P.outer_radius_at >= S.outer_radius_at.
C2_WrapCoversBisectors ==
    Wrapped("RegularPolygon::wrap") =>
        \A i \in 0 .. derived.num_sides - 1 :
            Geq(outer_radius_at(derived.result,
                    Bisector(derived.rotation, derived.num_sides, i)),
                outer_radius_at(shape,
                    Bisector(derived.rotation, derived.num_sides, i)))

\* C2: a Rect off the origin wrapped in a polygon at a rotation other than 0.
C2_Witness ==
    /\ Wrapped("RegularPolygon::wrap")
    /\ shape.kind = "Rect" /\ shape.offset # VZero
    /\ derived.rotation # 0
    /\ Sign(derived.result.outer_radius) > 0

\* a shape with inner and outer queries centred on the local origin
Centred(s) == s.kind \in InnerKinds /\ s.offset = VZero

\* the radius, or the width and height, of a Circle or Rect are >= 0
NonNegativeSize(s) ==
    IF s.kind = "Circle" THEN Geq(s.radius, Zero)
    ELSE Geq(s.width, Zero) /\ Geq(s.height, Zero)

\* C3: for every centred shape S with outer and inner queries and K in
\* {Circle, Rect}: K::wrap(K::fill(S)).outer_radius <= S.outer_radius,
\* K::fill(K::wrap(S)).inner_radius >= S.inner_radius, and every radius,
\* width and height produced is >= 0.
C3_FillWrapBounds ==
    (Centred(shape) /\ derived2 # None) =>
        /\ NonNegativeSize(derived.result) /\ NonNegativeSize(derived2.result)
        /\ (derived.op \in {"Circle::fill", "Rect::fill"}
              /\ OuterRadiusExact(shape) /\ OuterRadiusExact(derived2.result)) =>
                Leq(outer_radius(derived2.result), outer_radius(shape))
        /\ (derived.op \in {"Circle::wrap", "Rect::wrap"}
              /\ InnerRadiusExact(shape) /\ InnerRadiusExact(derived2.result)) =>
                Geq(inner_radius(derived2.result), inner_radius(shape))

\* C3: the unit Circle filled by a Rect and that Rect wrapped by a Rect, whose
\* outer radius is above the Circle's.
C3_Witness ==
    /\ shape = Circle_new(One, VZero)
    /\ derived2 # None /\ derived.op = "Rect::fill"
    /\ Lt(outer_radius(shape), outer_radius(derived2.result))

\* the vertex v lies inside or on the shape s (a Circle or a Rect)
Inside(v, s) ==
    IF s.kind = "Circle"
    THEN Leq(magnitude_squared(VSub(v, s.offset)), Mul(s.radius, s.radius))
    ELSE /\ Leq(fabs(Rotation2(-s.rotation, VSub(v, s.offset))[1]),
                Div(s.width, Num(2)))
         /\ Leq(fabs(Rotation2(-s.rotation, VSub(v, s.offset))[2]),
                Div(s.height, Num(2)))

\* C4: the rectangle of Rect::fill(S) or Rect::fill_rotated(S, r) is inscribed
\* in S: every vertex lies inside or on S (a Circle centred on the origin, or
\* a Rect), and its width and height are >= 0.
C4_FillInscribed ==
    ((Wrapped("Rect::fill") \/ Wrapped("Rect::fill_rotated"))
        /\ (shape.kind = "Rect" \/ (shape.kind = "Circle" /\ shape.offset = VZero))) =>
        /\ NonNegativeSize(derived.result)
        /\ \A i \in 1 .. 4 : Inside(RectVertices(derived.result)[i], shape)

\* C4: the unit Circle filled by a Rect with a vertex outside the Circle.
C4_Witness ==
    /\ shape = Circle_new(One, VZero)
    /\ Wrapped("Rect::fill")
    /\ \E i \in 1 .. 4 : ~Inside(RectVertices(derived.result)[i], shape)

\* C5: the rectangle of Rect::wrap(S) or Rect::wrap_rotated(S, r) has, in each
\* of the four directions r, r + 90, r + 180, r + 270 degrees (r = 0 for
\* Rect::wrap), outer_radius_at >= S.outer_radius_at.
C5_WrapEncloses ==
    ((Wrapped("Rect::wrap") \/ Wrapped("Rect::wrap_rotated"))
        /\ OuterRadiusAtExact(shape)) =>
        \A q \in 0 .. 3 :
            Geq(outer_radius_at(derived.result,
                                derived.rotation + q * (TurnUnits \div 4)),
                outer_radius_at(shape,
                                derived.rotation + q * (TurnUnits \div 4)))

\* C5: the unit Circle wrapped by Rect::wrap_rotated at rotation 0 in a Rect
\* that reaches less far than the Circle in direction 0.
C5_Witness ==
    /\ shape = Circle_new(One, VZero)
    /\ Wrapped("Rect::wrap_rotated") /\ derived.rotation = 0
    /\ Lt(outer_radius_at(derived.result, 0), outer_radius_at(shape, 0))

\* ------------------------------------------------ claims on layout nodes

\* a shape after the affine operation op with the argument arg
Moved(s, op, arg) ==
    CASE op = "translate" -> translate(s, arg)
      [] op = "rotate"    -> rotate(s, arg)
      [] op = "scale"     -> scale(s, arg)

\* a node after op has been applied to its own boundary shapes and to
\* every node it owns
RECURSIVE MovedThroughout(_, _, _)
MovedThroughout(n, op, arg) ==
    CASE n.node \in {"Symbol", "Phrase"} ->
            [n EXCEPT !.boundary =
                [i \in 1 .. Len(n.boundary) |-> Moved(n.boundary[i], op, arg)]]
      [] n.node \in {"Pentagram", "RegularPolygon", "Emphasized"} ->
            [n EXCEPT !.boundary = Moved(n.boundary, op, arg),
                      !.child = MovedThroughout(n.child, op, arg)]
      [] n.node = "Circle" ->
            [n EXCEPT !.boundary = Moved(n.boundary, op, arg),
                      !.content = MovedThroughout(n.content, op, arg),
                      !.rim = [i \in 1 .. Len(n.rim) |->
                                  MovedThroughout(n.rim[i], op, arg)]]
      [] n.node = "Decorated" ->
            [n EXCEPT !.decoration_rect = Moved(n.decoration_rect, op, arg),
                      !.child = MovedThroughout(n.child, op, arg)]
      [] n.node = "Link" ->
            [n EXCEPT !.segments =
                          [i \in 1 .. Len(n.segments) |->
                              Moved(n.segments[i], op, arg)],
                      !.items = [i \in 1 .. Len(n.items) |->
                                    MovedThroughout(n.items[i], op, arg)]]
      [] n.node = "Arrangement" ->
            [n EXCEPT !.items = [i \in 1 .. Len(n.items) |->
                                    MovedThroughout(n.items[i], op, arg)]]

AffineOps == {"translate", "rotate", "scale"}

\* the last operation on node was the affine operation op
Applied(op) == trace # None /\ trace.op = op

\* C1: for every kind of layout node, translate, rotate and scale applied to
\* a node are applied to the node's own boundary and to every node of its
\* owned subtree (child, content, rim items, items); no owned descendant is
\* left untouched.
C1_AffineReachesSubtree ==
    (trace # None /\ trace.op \in AffineOps) =>
        node = MovedThroughout(trace.pre, trace.op, trace.arg)

\* a Pentagram has been scaled and its child is what it was
C1_Witness ==
    /\ Applied("scale")
    /\ trace.pre.node = "Pentagram"
    /\ node.boundary = RegularPolygon_scale(trace.pre.boundary, trace.arg)
    /\ node.child = trace.pre.child
    /\ node.child # MovedThroughout(trace.pre.child, "scale", trace.arg)

\* the inner circle's radius and the mean radius of the Circle::construct
\* recorded in t
ConstructedInnerRadius(t) ==
    Circle_wrap(boundary(apply_content_constraints(t.params, t.content, t.rim)))
        .radius

ConstructedMeanRadius(t) ==
    Mul(Add(ConstructedInnerRadius(t),
            Mul(ConstructedInnerRadius(t),
                get_outer_radius_ratio(t.params, t.double))),
        Half)

\* whether the square roots taken by outer_radius of a boundary have a value
\* in the model
RECURSIVE Measurable(_)
Measurable(s) ==
    IF s.kind = "Vec"
    THEN \A i \in 1 .. Len(s.items) : Measurable(s.items[i])
    ELSE OuterRadiusExact(s)

\* C10: a Circle constructed with N >= 1 rim items: after construction the
\* outer radius of every rim item is >= circle_min_rim_ratio * mean_radius,
\* mean_radius being the midpoint of the inner circle's radius (the wrap of
\* the possibly rescaled content) and the outer circle's radius.
C10_RimItemsAboveMinimum ==
    (Applied("Circle::construct") /\ Len(trace.rim) >= 1) =>
        \A i \in 1 .. Len(node.rim) :
            Measurable(boundary(node.rim[i])) =>
                Geq(outer_radius(boundary(node.rim[i])),
                    Mul(trace.params.circle_min_rim_ratio,
                        ConstructedMeanRadius(trace)))

\* a Circle constructed around a rim of texts, one of them empty: the empty
\* text has the outer radius 0, below the positive minimum
C10_Witness ==
    /\ Applied("Circle::construct")
    /\ Len(trace.rim) >= 1
    /\ Sign(Mul(trace.params.circle_min_rim_ratio,
                ConstructedMeanRadius(trace))) > 0
    /\ \E i \in 1 .. Len(node.rim) :
          /\ trace.rim[i].node = "Symbol"
          /\ trace.rim[i].boundary = <<>>
          /\ outer_radius(boundary(node.rim[i])) = Zero

\* the rim of the Circle::construct recorded in t after the rim constraints
SizedRim(t) == apply_rim_constraints(t.params, t.rim, ConstructedMeanRadius(t))

\* the offset of the first boundary shape of a rim item (a text or an
\* emphasized text), the zero vector if it has none
FirstOffset(n) ==
    IF n.node = "Emphasized" THEN n.boundary.offset
    ELSE IF n.boundary = <<>> THEN VZero
    ELSE n.boundary[1].offset

\* the orientation i*TAU/N of rim item i of n (counted from 1 here), and the
\* direction base + i*TAU/N
RimOrientation(i, n) == ((i - 1) * TurnUnits) \div n

RimDirection(i, n) == Normal(BASE_RIM_ROTATION + RimOrientation(i, n))

\* the translation that took a rotated rim item to its place
RimShift(placed, rotated) == VSub(FirstOffset(placed), FirstOffset(rotated))

\* placed is rotated after a translation outward along a direction
MovedOutward(placed, rotated, shift, direction) ==
    /\ placed = LayoutNode_for_Node(rotated, "translate", shift)
    /\ Sign(dot(shift, direction)) >= 0
    /\ shift = VScale(dot(shift, direction), direction)

\* sized[i] was rotated by i*TAU/N and then moved outward along its direction
RimItemPlaced(placed, rotated, i, n) ==
    MovedOutward(placed, rotated, RimShift(placed, rotated), RimDirection(i, n))

\* C11: a Circle constructed with N >= 1 rim items: rim item i (from 0, in
\* rim order) is rotated by i*TAU/N and then translated outward along the
\* direction at the angle base + i*TAU/N, so the directions of adjacent items
\* differ by exactly TAU/N.
C11_RimEquallySpaced ==
    (Applied("Circle::construct") /\ Len(trace.rim) >= 1) =>
        LET sized == SizedRim(trace)
        IN  \A i \in 1 .. Len(node.rim) :
                RimItemPlaced(
                    node.rim[i],
                    LayoutNode_for_Node(sized[i], "rotate",
                                        RimOrientation(i, Len(sized))),
                    i, Len(sized))

\* six emphasized texts have been placed, each away from the centre on its
\* own direction, the second one turned by a sixth of a turn
C11_Witness ==
    /\ Applied("Circle::construct")
    /\ Len(trace.rim) = 6
    /\ \A i \in 1 .. 6 :
          Sign(dot(FirstOffset(node.rim[i]), RimDirection(i, 6))) > 0
    /\ node.rim[2].child.boundary[1].rotation = TurnUnits \div 6
    /\ FirstOffset(node.rim[2]) # FirstOffset(node.rim[1])

\* C12: a Circle constructed with no rim items: the content is not rescaled
\* by the rim constraint (it only gets the content scale), the outer circle's
\* radius is the content's outer radius times the stroke ratio (1.0 for a
\* single stroke, double_stroke_radius_ratio for a double one), and there is
\* no rim to scale, rotate or translate.
C12_NoRimItems ==
    (Applied("Circle::construct") /\ Len(trace.rim) = 0) =>
        /\ node.rim = <<>>
        /\ node.boundary =
               Circle_from_radius(
                   Mul(outer_radius(boundary(trace.content)),
                       IF trace.double
                       THEN trace.params.double_stroke_radius_ratio
                       ELSE One))
        /\ node.content =
               LayoutNode_for_Node(trace.content, "scale",
                                   trace.params.circle_content_scale)

\* a double-stroke Circle without a rim around a content of positive size
C12_Witness ==
    /\ Applied("Circle::construct")
    /\ Len(trace.rim) = 0
    /\ trace.double
    /\ Sign(outer_radius(boundary(trace.content))) > 0
    /\ Lt(outer_radius(boundary(trace.content)), node.boundary.radius)

\* the rotation of the constructed Pentagram's boundary is off the rotation
\* its inner pentagon is wrapped at by the angle of u units, either way round
TurnedFromInner(u) ==
    (node.boundary.rotation - INNER_ROTATION) % TurnUnits \in {u, TurnUnits - u}

\* the constructed Pentagram's boundary is a 5-gon whose circumradius is that
\* of the pentagon wrapped around the child times the fixed ratio
PentagramCircumradius ==
    /\ node.boundary.num_sides = 5
    /\ node.boundary.outer_radius =
           Mul(INNER_OUTER_RADIUS_RATIO,
               Circumradius(RegularPolygon_wrap(boundary(trace.child), 5,
                                                INNER_ROTATION)))

InwardRadius(item, i, n) ==
    outer_radius_at(boundary(item),
                    BASE_RIM_ROTATION + RimOrientation(i, n)
                        - TurnUnits \div 2)

\* the distance a placed rim item was translated along its direction
TranslationDistance(placed, rotated, i, n) ==
    dot(RimShift(placed, rotated), RimDirection(i, n))

\* the innermost extent of a placed rim item toward the centre
InnermostExtent(placed, sized, i, n) ==
    Sub(TranslationDistance(
            placed,
            LayoutNode_for_Node(sized, "rotate", RimOrientation(i, n)), i, n),
        InwardRadius(sized, i, n))

\* inner_radius - circle_max_rim_overlap_ratio * inner_radius
OverlapLimit(t, inner) ==
    Sub(inner, Mul(t.params.circle_max_rim_overlap_ratio, inner))

\* C14: after placement, for every rim item placed at the angle a, its
\* innermost extent toward the centre of the circle (its outward translation
\* distance minus its outer_radius_at at a + 180 degrees) is
\* >= inner_radius - circle_max_rim_overlap_ratio * inner_radius: no rim item
\* reaches into the inner circle by more than the tolerance.
C14_RimOverlapWithinTolerance ==
    (Applied("Circle::construct") /\ Len(trace.rim) >= 1) =>
        LET sized == SizedRim(trace)
            limit == OverlapLimit(trace, ConstructedInnerRadius(trace))
        IN  \A i \in 1 .. Len(node.rim) :
                Geq(InnermostExtent(node.rim[i], sized[i], i, Len(sized)),
                    limit)

\* a Circle constructed around a text of circumradius 5 with one text of
\* circumradius 10 on its rim: the rim item is translated by 5 and reaches 8
\* back toward the centre
C14_Witness ==
    /\ Applied("Circle::construct")
    /\ Len(trace.rim) = 1
    /\ ~ trace.double
    /\ ConstructedInnerRadius(trace) = Num(5)
    /\ trace.rim[1] = Symbol_construct(<<Num(12)>>, Num(16), Num(20))
    /\ TranslationDistance(node.rim[1], trace.rim[1], 1, 1) = Num(5)
    /\ InwardRadius(trace.rim[1], 1, 1) = Num(8)

\* anchor_radius + max(0, inward_clearance_needed - max_allowed_overlap)
ClearedDistance(t, inward, inner) ==
    Add(ConstructedMeanRadius(t),
        fmax(Zero,
             Sub(inward, Mul(t.params.circle_max_rim_overlap_ratio, inner))))

\* C19: each rim item is translated outward by exactly
\* anchor_radius + max(0, inward_clearance_needed - max_allowed_overlap):
\* anchor_radius the mean of the inner and the outer radius,
\* inward_clearance_needed the item's outer_radius_at in the direction back
\* to the centre, max_allowed_overlap = circle_max_rim_overlap_ratio *
\* inner_radius.
C19_RimTranslationDistance ==
    (Applied("Circle::construct") /\ Len(trace.rim) >= 1) =>
        LET sized == SizedRim(trace)
            inner == ConstructedInnerRadius(trace)
        IN  \A i \in 1 .. Len(node.rim) :
                TranslationDistance(
                    node.rim[i],
                    LayoutNode_for_Node(sized[i], "rotate",
                                        RimOrientation(i, Len(sized))),
                    i, Len(sized))
                    = ClearedDistance(trace, InwardRadius(sized[i], i,
                                                          Len(sized)), inner)

\* a double Circle constructed around a text of circumradius 5 with one equal
\* text on its rim: the item reaches 4 back toward the centre, 7/2 more than
\* the allowed 1/2, and is translated by the mean radius 11/2 alone
C19_Witness ==
    /\ Applied("Circle::construct")
    /\ Len(trace.rim) = 1
    /\ trace.double
    /\ trace.content = Symbol_construct(<<Num(6)>>, Num(8), Num(10))
    /\ trace.rim[1] = trace.content
    /\ InwardRadius(trace.rim[1], 1, 1) = Num(4)
    /\ ConstructedMeanRadius(trace) = Frac(11, 2)
    /\ TranslationDistance(node.rim[1], trace.rim[1], 1, 1) = Frac(11, 2)
    /\ ClearedDistance(trace, Num(4), Num(5)) = Num(9)

\* ------------------------------------------- the queries, applied to any
\* receiver (an empty collection and a polygon without sides among them)

\* the receivers of the calls: the constructed shapes, a Rect that does not
\* hold the origin, a RegularPolygon with no sides, and collections of none
\* and of two shapes
Receivers(g) ==
    InitialShapes(g)
    \cup {Rect_new(Num(2), Num(1), 0, V(3, 3)),
          RegularPolygon_new(0, Num(2), 0),
          ShapeVec(<<>>),
          ShapeVec(<<Circle_new(Num(1), VZero),
                     Rect_from_width_height(Num(2), Num(2))>>)}

Queries ==
    {"outer_coords_range", "outer_radius", "outer_radius_at",
     "inner_radius_at", "RegularPolygon::wrap", "RegularPolygon::fill"}

\* whether the receiver has the trait of the call, and the square roots the
\* call takes have a value in the model
Answerable(q, s) ==
    CASE q = "outer_coords_range" -> TRUE
      [] q = "outer_radius" -> Measurable(s)
      [] q = "outer_radius_at" -> s.kind = "Vec" \/ OuterRadiusAtExact(s)
      [] q = "inner_radius_at" -> s.kind \in InnerKinds
      [] q = "RegularPolygon::wrap" -> s.kind = "Vec" \/ OuterRadiusAtExact(s)
      [] q = "RegularPolygon::fill" -> s.kind \in InnerKinds

\* the value the call returns
Answer(q, s, num_sides, angle) ==
    CASE q = "outer_coords_range" -> outer_coords_range(s)
      [] q = "outer_radius" -> outer_radius(s)
      [] q = "outer_radius_at" -> outer_radius_at(s, angle)
      [] q = "inner_radius_at" -> inner_radius_at(s, angle)
      [] q = "RegularPolygon::wrap" -> RegularPolygon_wrap(s, num_sides, angle)
      [] q = "RegularPolygon::fill" -> RegularPolygon_fill(s, num_sides, angle)

\* the end of a call: none of the queries has a path that panics or returns
\* an error, each ends by returning its value
Returned(q, num_sides, angle, value) ==
    [kind |-> "Returned", op |-> q, num_sides |-> num_sides,
     angle |-> angle, value |-> value]

InitQuery ==
    /\ grid \in Grids
    /\ shape \in Receivers(grid)
    /\ hist = <<>>
    /\ steps = 0
    /\ positive = TRUE
    /\ derived = None
    /\ derived2 = None
    /\ node = None
    /\ trace = None

\* shape.q(..), or RegularPolygon::wrap / fill of the shape
Query(q, num_sides, angle) ==
    /\ derived = None
    /\ Answerable(q, shape)
    /\ derived' = Returned(q, num_sides, angle,
                           Answer(q, shape, num_sides, angle))
    /\ UNCHANGED <<grid, shape, hist, steps, positive, derived2, node, trace>>

NextQuery ==
    \E q \in Queries :
      \E n \in (IF TakesSides(q) THEN SidesFor(grid) \cup {0} ELSE {0}) :
        \E a \in (IF q \in {"outer_coords_range", "outer_radius"}
                  THEN {0} ELSE Angles(grid)) :
          Query(q, n, a)

SpecQuery == InitQuery /\ [][NextQuery]_vars

\* ----------------------------------------------- claims on the queries

\* a polygon without vertices or a collection without shapes
Empty(s) ==
    \/ s.kind = "Vec" /\ s.items = <<>>
    \/ IsPolygon(s) /\ vertices(s) = <<>>

\* whether no edge of the polygon s qualifies at the angle: every distance
\* is dropped by the filter
NoEdgeQualifies(s, angle) ==
    /\ IsPolygon(s)
    /\ FilterNonNeg(Distances(sides(s), Normal(angle))) = <<>>

\* whether the call recorded in d on the receiver s meets a degenerate input
Degenerate(d, s) ==
    \/ TakesSides(d.op) /\ d.num_sides = 0
    \/ d.op \in {"outer_coords_range", "outer_radius", "outer_radius_at"}
         /\ Empty(s)
    \/ d.op = "inner_radius_at" /\ NoEdgeQualifies(s, d.angle)

\* C15: a call that meets a degenerate input (RegularPolygon::wrap or fill
\* with num_sides = 0, an outer query on a polygon without vertices or on an
\* empty collection of shapes, inner_radius_at at an angle where no edge
\* qualifies) ends in a failure: it does not return 0, a 0..0 range,
\* +infinity or any other value as its result.
C15_DegenerateInputsFail ==
    (derived # None /\ Degenerate(derived, shape)) => derived.kind # "Returned"

\* inner_radius_at of a Rect about (3, 3) that does not hold the origin,
\* asked at an angle pointing away from it: no edge qualifies and +infinity
\* is returned
C15_Witness ==
    /\ derived # None
    /\ derived.op = "inner_radius_at"
    /\ shape.kind = "Rect"
    /\ vertices(shape) # <<>>
    /\ NoEdgeQualifies(shape, derived.angle)
    /\ derived.kind = "Returned"
    /\ derived.value = INFINITY

\* the other degenerate calls, each returning a default: wrap with no sides
\* (NaN radius), fill with no sides (radius 0), the outer radius of an empty
\* collection (0) and the coordinate range of a polygon with no sides (0..0)
C15_WitnessWrap ==
    /\ derived # None
    /\ derived.op = "RegularPolygon::wrap"
    /\ derived.num_sides = 0
    /\ IsNaN(derived.value.outer_radius)

C15_WitnessFill ==
    /\ derived # None
    /\ derived.op = "RegularPolygon::fill"
    /\ derived.num_sides = 0
    /\ derived.value.outer_radius = Zero

C15_WitnessEmptyVec ==
    /\ derived # None
    /\ derived.op = "outer_radius"
    /\ shape = ShapeVec(<<>>)
    /\ derived.value = Zero

C15_WitnessNoVertices ==
    /\ derived # None
    /\ derived.op = "outer_coords_range"
    /\ shape.kind = "RegularPolygon"
    /\ shape.num_sides = 0
    /\ derived.value = <<<<Zero, Zero>>, <<Zero, Zero>>>>

\* ---------------------------------------- more claims on the shape kernel

\* C16: in every state reached from a constructed Circle by translate,
\* rotate and scale with any factor, the radius of the Circle is >= 0.
C16_CircleRadiusNonNegative ==
    shape.kind = "Circle" => Sign(shape.radius) >= 0

\* a Circle constructed with a positive radius and scaled by a negative
\* factor: its radius is the product, below 0
C16_Witness ==
    /\ shape.kind = "Circle"
    /\ hist # <<>>
    /\ hist[Len(hist)].op = "scale"
    /\ Sign(hist[Len(hist)].arg) < 0
    /\ Sign(hist[Len(hist)].pre.radius) > 0
    /\ shape.radius = Mul(hist[Len(hist)].pre.radius, hist[Len(hist)].arg)
    /\ Sign(shape.radius) < 0

\* ------------------------------------- layout.rs: construction of figures

\* the end of a call that reaches todo!(): the call panics and returns nothing
Aborted == [node |-> "aborted"]

\* Node::construct: its body is todo!()
Node_construct(params, figure) == Aborted

\* Circle::get_rim_nodes: Node::construct mapped over the rim
get_rim_nodes(params, rim) ==
    [i \in 1 .. Len(rim) |-> Node_construct(params, rim[i])]

\* a constructor's work after the Node::construct calls it begins with: the
\* panic of a call unwinds through its caller
AfterNodes(nodes, result) ==
    IF \E i \in 1 .. Len(nodes) : nodes[i] = Aborted THEN Aborted ELSE result

\* K::construct(params, figure) for the kind K of the figure; a text stands
\* for what the font measures of it. Link::construct ends in todo!()
Figure_construct(params, f) ==
    CASE f.figure = "Symbol" ->
            Symbol_construct(f.line_widths, f.text_height, f.line_height)
      [] f.figure = "Phrase" ->
            Phrase_construct(f.line_widths, f.text_height, f.line_height)
      [] f.figure = "Pentagram" ->
            AfterNodes(<<Node_construct(params, f.content)>>,
                       Pentagram_construct(
                           params, Node_construct(params, f.content)))
      [] f.figure = "Circle" ->
            AfterNodes(<<Node_construct(params, f.content)>>
                           \o get_rim_nodes(params, f.rim),
                       Circle_construct(
                           params, f.double,
                           Node_construct(params, f.content),
                           get_rim_nodes(params, f.rim)))
      [] f.figure = "RegularPolygon" ->
            AfterNodes(<<Node_construct(params, f.content)>>,
                       RegularPolygon_construct(
                           params, f.num_sides,
                           Node_construct(params, f.content)))
      [] f.figure = "Decorated" ->
            AfterNodes(<<Node_construct(params, f.content)>>,
                       Decorated_construct(
                           params, f.kind, Node_construct(params, f.content)))
      [] f.figure = "Emphasized" ->
            AfterNodes(<<Node_construct(params, f.content)>>,
                       Emphasized_construct(
                           params, Node_construct(params, f.content)))
      [] f.figure = "Link" -> Aborted

\* ------------------------------------------- construction of figures,
\* applied

\* the texts of the figures, by what the font measures of them
TextFigures ==
    {[figure |-> kind, line_widths |-> <<w>>, text_height |-> h,
      line_height |-> Add(h, Num(2))] :
        kind \in {"Symbol", "Phrase"},
        w \in {Num(6), Num(12)}, h \in {Num(8), Num(16)}}

\* the figures with content: every kind around every text
ContentFigures(texts) ==
    {[figure |-> "Pentagram", content |-> c] : c \in texts}
    \cup {[figure |-> "Circle", double |-> d, content |-> c,
            rim |-> [i \in 1 .. n |-> c]] :
             d \in BOOLEAN, c \in texts, n \in 0 .. 2}
    \cup {[figure |-> "RegularPolygon", num_sides |-> n, content |-> c] :
             n \in {3, 4, 6}, c \in texts}
    \cup {[figure |-> "Decorated", kind |-> k, content |-> c] :
             k \in {"Hat", "Tilde"}, c \in texts}
    \cup {[figure |-> "Emphasized", content |-> c] : c \in texts}

\* the figures with items: a Link and an Arrangement of one and of two texts
ItemFigures(texts) ==
    {[figure |-> k, items |-> <<c>>] :
        k \in {"Link", "Arrangement"}, c \in texts}
    \cup {[figure |-> k, items |-> <<c, c>>] :
             k \in {"Link", "Arrangement"}, c \in texts}

\* finite figure trees, two levels deep at most
Figures ==
    TextFigures \cup ContentFigures(TextFigures) \cup ItemFigures(TextFigures)
    \cup {[figure |-> "Circle", double |-> FALSE,
           content |-> [figure |-> "Pentagram", content |-> c],
           rim |-> <<[figure |-> "Emphasized", content |-> c]>>] :
             c \in TextFigures}

\* the kinds with a construct function of their own (an Arrangement is built
\* by Node::construct alone)
HasConstructor(f) == f.figure # "Arrangement"

InitConstruct ==
    /\ grid \in Grids
    /\ node \in Figures
    /\ trace = None
    /\ shape = None
    /\ hist = <<>>
    /\ steps = 0
    /\ positive = TRUE
    /\ derived = None
    /\ derived2 = None

\* K::construct(params, figure) for the figure held in node
ConstructFigure(params) ==
    /\ trace = None
    /\ HasConstructor(node)
    /\ trace' = [op |-> "construct", by |-> node.figure, figure |-> node,
                 outcome |-> Figure_construct(params, node)]
    /\ UNCHANGED <<grid, shape, hist, steps, positive, derived, derived2, node>>

\* Node::construct(params, figure) for the figure held in node
ConstructNode(params) ==
    /\ trace = None
    /\ trace' = [op |-> "construct", by |-> "Node", figure |-> node,
                 outcome |-> Node_construct(params, node)]
    /\ UNCHANGED <<grid, shape, hist, steps, positive, derived, derived2, node>>

NextConstruct ==
    \/ \E params \in ParamSets : ConstructFigure(params)
    \/ \E params \in ParamSets : ConstructNode(params)

SpecConstruct == InitConstruct /\ [][NextConstruct]_vars

\* --------------------------------- claims on the construction of figures

\* C17: construction of every finite figure tree of every node kind (Symbol,
\* Phrase, Pentagram, Circle, RegularPolygon, Decorated with every kind of
\* decoration, Emphasized, Link with >= 1 item, Arrangement) ends by
\* returning a layout node; it never aborts.
C17_ConstructionReturns ==
    (trace # None /\ trace.op = "construct") => trace.outcome # Aborted

\* Circle::construct called with a Circle of a text and a rim of two texts:
\* the call has ended without a layout node
C17_Witness ==
    /\ trace # None
    /\ trace.op = "construct"
    /\ trace.by = "Circle"
    /\ trace.figure.content.figure = "Symbol"
    /\ Len(trace.figure.rim) = 2
    /\ trace.outcome = Aborted

\* a Symbol and a Phrase are the two kinds whose construct returns
C17_TextsReturn ==
    (trace # None /\ trace.op = "construct"
        /\ trace.by \in {"Symbol", "Phrase"}) =>
        /\ trace.outcome # Aborted
        /\ trace.outcome.node = trace.by

\* ------------------------------------------ more claims on layout nodes

\* the largest outer radius of the rim items handed to Circle::construct
HighestRimSize(t) ==
    FoldMax([i \in 1 .. Len(t.rim) |-> outer_radius(boundary(t.rim[i]))], Zero)

\* the content of the constructed Circle is the content handed in, scaled by
\* a factor and then by circle_content_scale / by circle_content_scale alone
ContentScaledBy(factor) ==
    node.content =
        LayoutNode_for_Node(
            LayoutNode_for_Node(trace.content, "scale", factor),
            "scale", trace.params.circle_content_scale)

ContentUnscaled ==
    node.content =
        LayoutNode_for_Node(trace.content, "scale",
                            trace.params.circle_content_scale)

\* the size of the first boundary shape of a rim item (the width of a text's
\* first line, the radius of an emphasized text), 0 if it has none
FirstExtent(n) ==
    IF n.node = "Emphasized" THEN n.boundary.radius
    ELSE IF n.boundary = <<>> THEN Zero
    ELSE n.boundary[1].width

\* the mean radius as the constructed Circle shows it: the midpoint of its
\* outer radius and the outer radius taken back through the stroke ratio
ShownMeanRadius ==
    Mul(Add(Div(node.boundary.radius,
                get_outer_radius_ratio(trace.params, trace.double)),
            node.boundary.radius),
        Half)

\* every rim item has the size the rim constraints alone give the item that
\* was handed in
RimSizedByRimConstraintsOnly(mean_radius) ==
    \A i \in 1 .. Len(trace.rim) :
        FirstExtent(node.rim[i])
            = FirstExtent(ScaledUpTo(
                  trace.rim[i], outer_radius(boundary(trace.rim[i])),
                  Mul(trace.params.circle_min_rim_ratio, mean_radius)))

OtherContentScales == {Frac(1, 2), Frac(9, 10)}

\* params with both content scales replaced
WithContentScale(params, s) ==
    [params EXCEPT !.circle_content_scale = s, !.polygon_content_scale = s]

\* the construction recorded in t, made again with another content scale
ConstructedAgain(t, s) ==
    CASE t.op = "Circle::construct" ->
            Circle_construct(WithContentScale(t.params, s), t.double,
                             t.content, t.rim)
      [] t.op = "Pentagram::construct" ->
            Pentagram_construct(WithContentScale(t.params, s), t.child)
      [] t.op = "RegularPolygon::construct" ->
            RegularPolygon_construct(WithContentScale(t.params, s), t.sides,
                                     t.child)

\* the content child of a constructed Circle, Pentagram or RegularPolygon
ContentChild(n) == IF n.node = "Circle" THEN n.content ELSE n.child

ScaledConstructs ==
    {"Circle::construct", "Pentagram::construct", "RegularPolygon::construct"}

\* C20: two constructions of the same Circle, Pentagram or RegularPolygon
\* whose parameters differ only in circle_content_scale and
\* polygon_content_scale give the same boundary of the node and, for a
\* Circle, the same rim items (each with the same scale, rotation and
\* translation); the content children differ by the content scales alone.
C20_ContentScaleDoesNotFeedBack ==
    (trace # None /\ trace.op \in ScaledConstructs) =>
        \A s \in OtherContentScales :
            LET again == ConstructedAgain(trace, s)
            IN  /\ again.boundary = node.boundary
                /\ node.node = "Circle" => again.rim = node.rim
                /\ LayoutNode_for_Node(
                       ContentChild(node), "scale", s)
                       = LayoutNode_for_Node(
                             ContentChild(again), "scale",
                             IF node.node = "Circle"
                             THEN trace.params.circle_content_scale
                             ELSE trace.params.polygon_content_scale)

\* a Circle constructed around a text with four texts on its rim: made again
\* with the content scale 1/2 it has another content and the same rim
C20_Witness ==
    /\ Applied("Circle::construct")
    /\ Len(trace.rim) = 4
    /\ trace.content.node = "Symbol"
    /\ trace.content.boundary # <<>>
    /\ Sign(node.boundary.radius) > 0
    /\ ConstructedAgain(trace, Frac(1, 2)).content # node.content
    /\ ConstructedAgain(trace, Frac(1, 2)).rim = node.rim

\* --------------------------- claims on the vertices of the polygon kinds

\* the largest and the smallest number of a sequence that is not empty
MaxOf(s) == FoldMax(Tail(s), Head(s))

MinOf(s) == FoldMin(Tail(s), Head(s))

\* the bounding box of a sequence of vertices that is not empty
BoxOf(v) ==
    << <<MinOf(Xs(v)), MaxOf(Xs(v))>>, <<MinOf(Ys(v)), MaxOf(Ys(v))>> >>

\* C21: for every Rect and RegularPolygon with at least one vertex,
\* outer_coords_range is exactly [min vertex x, max vertex x] x [min vertex y,
\* max vertex y], outer_radius is the distance of the farthest vertex from
\* the origin, and outer_radius_at(theta) is the maximum over the vertices of
\* the vertex's projection onto the unit direction at theta, also for a
\* polygon translated so that it does not hold the origin.
C21_PolygonQueriesMatchVertices ==
    (IsPolygon(shape) /\ vertices(shape) # <<>>) =>
        LET v == vertices(shape)
        IN  /\ outer_coords_range(shape) = BoxOf(v)
            /\ OuterRadiusExact(shape) =>
                  outer_radius(shape) = sqrt(MaxOf(MagnitudesSquared(v)))
            /\ \A a \in Angles(grid) :
                  outer_radius_at(shape, a) = MaxOf(Projections(v, Normal(a)))

\* a Rect all of whose vertices lie left of the origin: its x range ends at
\* 0 and its outer radius at the angle 0 is 0, above every projection
C21_Witness ==
    /\ shape.kind = "Rect"
    /\ Sign(MaxOf(Xs(vertices(shape)))) < 0
    /\ outer_coords_range(shape)[1][2] = Zero
    /\ outer_radius_at(shape, 0) = Zero
    /\ Sign(MaxOf(Projections(vertices(shape), Normal(0)))) < 0

\* the vertex k (from 0) of a regular polygon: at the distance outer_radius
\* from its centre, in the direction rotation + k * TAU / num_sides
VertexAt(p, k) ==
    VAdd(RegularPolygon_center(p),
         VScale(p.outer_radius,
                Normal(p.rotation + k * TauOver(p.num_sides))))

\* C22: the vertex k (k = 0 .. N-1) of a RegularPolygon with N sides,
\* circumradius R, rotation phi and a centre offset lies at the distance R
\* from its centre in the direction phi + k * TAU / N (the first vertex at the
\* rotation angle), so that rotate and translate change the vertex sequence.
C22_RegularPolygonVertices ==
    shape.kind = "RegularPolygon" =>
        \A k \in 0 .. shape.num_sides - 1 :
            vertices(shape)[k + 1] = VertexAt(shape, k)

\* a RegularPolygon that was translated or rotated, with a centre off the
\* origin and a rotation that is no whole number of its segments: its
\* vertices are those of the polygon about the origin with rotation 0
C22_Witness ==
    /\ shape.kind = "RegularPolygon"
    /\ hist # <<>>
    /\ hist[Len(hist)].op \in {"translate", "rotate"}
    /\ RegularPolygon_center(shape) # VZero
    /\ shape.rotation % TauOver(shape.num_sides) # 0
    /\ vertices(shape)
           = vertices(RegularPolygon_new(shape.num_sides, shape.outer_radius,
                                         0))
    /\ vertices(shape)[1] # VertexAt(shape, 0)

\* ------------------------------------------------------ claims on Lines

\* C23: for every Line with the endpoints s and e, outer_coords_range is the
\* x range [min(s.x, e.x), max(s.x, e.x)] and the y range
\* [min(s.y, e.y), max(s.y, e.y)].
C23_LineCoordsRange ==
    shape.kind = "Line" =>
        outer_coords_range(shape)
            = << <<fmin(shape.start[1], shape.end[1]),
                   fmax(shape.start[1], shape.end[1])>>,
                 <<fmin(shape.start[2], shape.end[2]),
                   fmax(shape.start[2], shape.end[2])>> >>

\* a Line whose endpoints differ in y: the y range it reports ends where it
\* starts, at the smaller y
C23_Witness ==
    /\ shape.kind = "Line"
    /\ Lt(shape.start[2], shape.end[2])
    /\ outer_coords_range(shape)[2] = <<shape.start[2], shape.start[2]>>
    /\ outer_coords_range(shape)[1]
           = <<fmin(shape.start[1], shape.end[1]),
               fmax(shape.start[1], shape.end[1])>>

\* ------------------------------------- the sides iterator, call by call

\* Option<Vector2<f64>>: no value, or one value
Nothing == <<>>
Some(x) == <<x>>

\* the number of calls of next() on one iterator
MaxCalls == 8

\* PolygonSides::new: no first and no previous vertex, the vertices still
\* to come from the inner iterator
PolygonSides_new(vs) == [first |-> Nothing, prev |-> Nothing, vertices |-> vs]

\* self.first.get_or_insert(vertex); self.prev.replace(vertex), after
\* self.vertices.next() returned Some(vertex)
Taken(it, vertex) ==
    [first |-> IF it.first = Nothing THEN Some(vertex) ELSE it.first,
     prev |-> Some(vertex),
     vertices |-> Tail(it.vertices)]

\* the ending of PolygonSides::next with the first and the previous vertex
\* read and left in place
Closing_keeping(it) ==
    IF it.prev = Nothing \/ it.first = Nothing
    THEN [it |-> it, item |-> Nothing]
    ELSE [it |-> it, item |-> Some(vector_to_line(it.prev[1], it.first[1]))]

\* the inner iterator is at its end:
\* return Some(vector_to_line(self.prev.take()?, self.first.take()?))
Closing(it) ==
    IF it.prev = Nothing
    THEN [it |-> it, item |-> Nothing]
    ELSE IF it.first = Nothing
         THEN [it |-> [it EXCEPT !.prev = Nothing], item |-> Nothing]
         ELSE [it |-> [it EXCEPT !.prev = Nothing, !.first = Nothing],
               item |-> Some(vector_to_line(it.prev[1], it.first[1]))]

\* PolygonSides::next: the iterator after the call and the item returned
RECURSIVE PolygonSides_next(_)
PolygonSides_next(it) ==
    IF it.vertices = <<>>
    THEN Closing(it)
    ELSE IF it.prev # Nothing
         THEN [it |-> Taken(it, Head(it.vertices)),
               item |-> Some(vector_to_line(it.prev[1], Head(it.vertices)))]
         ELSE PolygonSides_next(Taken(it, Head(it.vertices)))

\* the polygons whose sides are iterated: the polygons of the initial
\* shapes, also moved, turned and resized, a polygon of two vertices, one
\* without vertices and one whose vertices are all the origin
SidesReceivers(g) ==
    {s \in InitialShapes(g) : IsPolygon(s)}
    \cup {translate(s, V(-1, 0)) : s \in {t \in InitialShapes(g) : IsPolygon(t)}}
    \cup {rotate(s, g) : s \in {t \in InitialShapes(g) : IsPolygon(t)}}
    \cup {RegularPolygon_new(2, Num(1), 0),
          RegularPolygon_new(0, Num(2), 0),
          RegularPolygon_new(3, Zero, 0),
          Rect_new(Num(2), Num(1), 0, V(3, 3))}

InitSides ==
    /\ grid \in Grids
    /\ shape \in SidesReceivers(grid)
    /\ hist = <<>>
    /\ steps = 0
    /\ positive = TRUE
    /\ derived = None
    /\ derived2 = None
    /\ node = None
    /\ trace = <<>>

\* let mut sides = shape.sides()
Sides ==
    /\ derived = None
    /\ derived' = [kind |-> "PolygonSides",
                   it |-> PolygonSides_new(vertices(shape))]
    /\ UNCHANGED <<grid, shape, hist, steps, positive, derived2, node, trace>>

\* sides.next(): trace records what each call returned
NextSide ==
    /\ derived # None
    /\ steps < MaxCalls
    /\ derived' = [derived EXCEPT !.it = PolygonSides_next(derived.it).it]
    /\ trace' = Append(trace, PolygonSides_next(derived.it).item)
    /\ steps' = steps + 1
    /\ UNCHANGED <<grid, shape, hist, positive, derived2, node>>

NextSides == Sides \/ NextSide

SpecSides == InitSides /\ [][NextSides]_vars

\* --------------------------------------- claims on the sides iterator

\* f lies on the line through a and b, and the segment from the origin to f
\* is perpendicular to that line
IsFootOnLine(f, a, b) ==
    /\ dot(f, VSub(b, a)) = Zero
    /\ Sub(Mul(Sub(f[1], a[1]), Sub(b[2], a[2])),
           Mul(Sub(f[2], a[2]), Sub(b[1], a[1]))) = Zero

\* the j-th call of next() on the sides of a polygon with the vertices v
\* returned the item for the edge from v[j] to the vertex after it, the first
\* vertex after the last one
YieldedEdge(v, j, item) ==
    /\ item # Nothing
    /\ item[1] = sides(shape)[j]
    /\ v[j] # v[(j % Len(v)) + 1] =>
           IsFootOnLine(item[1], v[j], v[(j % Len(v)) + 1])

\* C24: on a polygon with N >= 2 vertices the first N calls of next() on its
\* sides yield, in order, the foot of the perpendicular from the origin on
\* the line through each edge, the edge from the last vertex to the first one
\* last, and every later call yields nothing; with no vertices every call
\* yields nothing.
C24_SidesYieldEachEdgeOnce ==
    Len(vertices(shape)) # 1 =>
        \A j \in 1 .. Len(trace) :
            IF j <= Len(vertices(shape))
            THEN YieldedEdge(vertices(shape), j, trace[j])
            ELSE trace[j] = Nothing

\* the sides of a turned Rect away from the origin after more calls than it
\* has edges: four feet, the last one on the closing edge, then nothing twice
C24_Witness ==
    /\ shape.kind = "Rect"
    /\ shape.offset # VZero
    /\ shape.rotation # 0
    /\ Len(trace) >= 6
    /\ \A j \in 1 .. 4 : trace[j] # Nothing
    /\ IsFootOnLine(trace[4][1], vertices(shape)[4], vertices(shape)[1])
    /\ trace[4][1] # vertices(shape)[4]
    /\ trace[5] = Nothing
    /\ trace[6] = Nothing

\* a polygon without vertices: every call yields nothing
C24_WitnessNoVertices ==
    /\ vertices(shape) = <<>>
    /\ Len(trace) >= 2
    /\ \A j \in 1 .. Len(trace) : trace[j] = Nothing

\* --------------------------------------- claims on the centre of shapes

\* the middle of a range of coordinates
MidOf(r) == Div(Add(r[1], r[2]), Num(2))

\* the mean of four points
CentroidOf(v) ==
    Vec2(Div(Add(Add(v[1][1], v[2][1]), Add(v[3][1], v[4][1])), Num(4)),
         Div(Add(Add(v[1][2], v[2][2]), Add(v[3][2], v[4][2])), Num(4)))

\* the centre of the boundary the outer queries report: the middle of a
\* Circle's outer_coords_range, the centroid of a Rect's vertices
GeometricCentre(s) ==
    IF s.kind = "Circle"
    THEN Vec2(MidOf(outer_coords_range(s)[1]), MidOf(outer_coords_range(s)[2]))
    ELSE CentroidOf(vertices(s))

\* where rotate(angle) takes the endpoint p of a Line
LineEndpointRotated(p, angle) == rotate(Line(p, p), angle).start

\* the corner points of a shape: the endpoints of a Line, the vertices of a
\* polygon
CornerPoints(s) ==
    IF s.kind = "Line"
    THEN {s.start, s.end}
    ELSE {vertices(s)[i] : i \in 1 .. Len(vertices(s))}

\* C25: rotate(theta) is one and the same rigid rotation about the origin for
\* every kind of shape: the endpoints of a Line and the vertices of a Rect or a
\* RegularPolygon after it are the images of those before it, a Circle keeps
\* its radius, and the geometric centre of a Circle or Rect is afterwards
\* where the same rotate takes a Line endpoint that lay on it before.
C25_RotateIsOneRigidRotation ==
    (hist # <<>> /\ hist[Len(hist)].op = "rotate"
                 /\ shape.kind \in {"Line", "Circle", "Rect", "RegularPolygon"}) =>
        LET pre == hist[Len(hist)].pre
            theta == hist[Len(hist)].arg
        IN  /\ shape.kind # "Circle" =>
                   CornerPoints(shape)
                       = {LineEndpointRotated(p, theta) : p \in CornerPoints(pre)}
            /\ shape.kind = "Circle" => shape.radius = pre.radius
            /\ shape.kind \in {"Circle", "Rect"} =>
                   GeometricCentre(shape)
                       = LineEndpointRotated(GeometricCentre(pre), theta)

\* a Circle away from the origin after a quarter turn: a Line endpoint that
\* lay on its centre is taken to the opposite side of the origin
C25_Witness ==
    /\ hist # <<>>
    /\ hist[Len(hist)].op = "rotate"
    /\ shape.kind = "Circle"
    /\ GeometricCentre(hist[Len(hist)].pre) # VZero
    /\ GeometricCentre(shape)
           = VNeg(LineEndpointRotated(GeometricCentre(hist[Len(hist)].pre),
                                      hist[Len(hist)].arg))

\* a RegularPolygon after a turn that is no symmetry of it: its vertices are
\* those before the turn
C25_WitnessPolygon ==
    /\ hist # <<>>
    /\ hist[Len(hist)].op = "rotate"
    /\ shape.kind = "RegularPolygon"
    /\ vertices(shape) = vertices(hist[Len(hist)].pre)
    /\ CornerPoints(shape)
           # {LineEndpointRotated(p, hist[Len(hist)].arg) :
                  p \in CornerPoints(hist[Len(hist)].pre)}

\* Circle::center / Rect::center
center(s) == IF s.kind = "Circle" THEN Circle_center(s) ELSE Rect_center(s)

\* C26: the centre a Circle or Rect reports by center() is the geometric
\* centre of the boundary its outer queries report (the middle of the Circle's
\* outer_coords_range, the centroid of the Rect's vertices), and translate(D)
\* moves the reported centre by +D.
C26_CentreIsGeometricCentre ==
    shape.kind \in {"Circle", "Rect"} =>
        /\ center(shape) = GeometricCentre(shape)
        /\ (hist # <<>> /\ hist[Len(hist)].op = "translate") =>
               center(shape)
                   = VAdd(center(hist[Len(hist)].pre), hist[Len(hist)].arg)

\* a Circle built around the origin and moved by D: it reports the centre -D
\* while its coordinate ranges are centred on +D
C26_Witness ==
    /\ shape.kind = "Circle"
    /\ hist # <<>>
    /\ hist[Len(hist)].op = "translate"
    /\ hist[Len(hist)].pre = Circle_new(hist[Len(hist)].pre.radius, VZero)
    /\ center(shape) = VNeg(hist[Len(hist)].arg)
    /\ GeometricCentre(shape) = hist[Len(hist)].arg
    /\ hist[Len(hist)].arg # VZero

\* a Rect built with a centre away from the origin: the centroid of its
\* vertices is the opposite point
C26_WitnessRect ==
    /\ shape.kind = "Rect"
    /\ hist = <<>>
    /\ center(shape) # VZero
    /\ GeometricCentre(shape) = VNeg(center(shape))

====
